---------------------------- MODULE Spec2Model ----------------------------
(***************************************************************************)
(* A model of the arcgis-animate-markers-plugin.                           *)
(*                                                                         *)
(*   AnimatedSymbol         src/src/AnimatedSymbol.ts   lines 26-333       *)
(*   SymbolAnimationManager src/src/AnimationManager.ts lines 545-818      *)
(*   update functions       src/unnamed/part_000 (updateMarkers)           *)
(*                                                                         *)
(* The JavaScript heap is modelled by value: graphics are named by         *)
(* strings, AnimatedSymbol objects are the elements of the sequence anims, *)
(* and every call of start creates one "run" (the closure holding abort,   *)
(* the elapsed time, fromSymbol and the animation props), an element of the *)
(* sequence runs.  Frame callbacks requested with requestAnimationFrame    *)
(* wait in rafQueue; a frame moves them to frameQueue and runs them one    *)
(* after the other.                                                        *)
(*                                                                         *)
(* Numbers: progress, scale and alpha are fixed-point with denominator     *)
(* Unit (progress 1 is Unit, scale 1 is Unit, alpha 1 is Unit).            *)
(***************************************************************************)
EXTENDS Integers, Sequences, FiniteSets, TLC

(***************************************************************************)
(* Bounds of the model.                                                    *)
(***************************************************************************)
Unit == 2            \* fixed-point denominator of progress, scale and alpha
MaxRuns == 3         \* runs (calls of start) created in one behaviour
MaxSpringSteps == 2  \* frames a spring moves before it comes to rest
MaxAnims == 2        \* AnimatedSymbol objects a manager creates
MaxDeferred == 2     \* pending whenOnce continuations

Undef == -999        \* the JavaScript value undefined of an optional number

Graphics == {"g1", "g2"}
NoGraphic == "none"

(***************************************************************************)
(* Symbols.  type, size, angle, fill alpha a, outline alpha oa (Undef: no  *)
(* outline colour) and the opacity field the animator records on a symbol; *)
(* a picture marker has width, height and url instead of size and colours, *)
(* a CIM symbol has the size and the rotation cimSymbolUtils reads.        *)
(***************************************************************************)
NaN == -998          \* the JavaScript number NaN

\* A url: the image it shows, whether it is the svg data URI that
\* updatePictureMarker writes, and the number that the first text
\* opacity=... in it denotes (Undef when the url has no such text).
NoUrl == [image |-> "", svg |-> FALSE, opacity |-> Undef]
PlainUrl == [image |-> "pin.png", svg |-> FALSE, opacity |-> Undef]
QueryUrl == [image |-> "pin.png?opacity=0", svg |-> FALSE, opacity |-> 0]

SimpleMarker(size, angle, a, oa) ==
  [type |-> "simple-marker", size |-> size, angle |-> angle, a |-> a, oa |-> oa,
   opacity |-> Undef, width |-> Undef, height |-> Undef, url |-> NoUrl]

PictureMarker(width, height, angle, url) ==
  [type |-> "picture-marker", size |-> Undef, angle |-> angle, a |-> Undef, oa |-> Undef,
   opacity |-> Undef, width |-> width, height |-> height, url |-> url]

CIMSymbol(size, angle) ==
  [type |-> "cim", size |-> size, angle |-> angle, a |-> Undef, oa |-> Undef,
   opacity |-> Undef, width |-> Undef, height |-> Undef, url |-> NoUrl]

OtherSymbol ==
  [type |-> "text", size |-> 0, angle |-> 0, a |-> Unit, oa |-> Undef, opacity |-> Undef,
   width |-> Undef, height |-> Undef, url |-> NoUrl]

Min(x, y) == IF x <= y THEN x ELSE y
Max(x, y) == IF x >= y THEN x ELSE y

\* symbol.clone(): symbols are values here, a clone is an equal value.
cloneSymbol(symbol) == symbol

\* isDefined of types/typeGuards: the value is neither undefined nor NaN.
isDefined(v) == v # Undef /\ v # NaN

\* from + (to - from) * progress, progress a multiple of 1/Unit
Interpolate(from, to, progress) == from + ((to - from) * progress) \div Unit

\* esri Color keeps alpha within [0, 1]
ClampAlpha(x) == Min(Unit, Max(0, x))

\* updateSimpleMarker that takes target.rotate as a turn from the original
\* symbol's angle
updateSimpleMarkerRelativeRotate(progress, fromSymbol, to, originalSymbol) ==
  LET s1 == IF isDefined(to.scale)
            THEN [fromSymbol EXCEPT !.size =
                    Interpolate(fromSymbol.size,
                                (originalSymbol.size * to.scale) \div Unit, progress)]
            ELSE fromSymbol
  IN IF isDefined(to.rotate)
     THEN [s1 EXCEPT !.angle = Interpolate(fromSymbol.angle,
                                           originalSymbol.angle + to.rotate, progress)]
     ELSE s1

updateSimpleMarker(progress, fromSymbol, to, originalSymbol) ==
  LET originalSymbolOpacity ==
        IF isDefined(originalSymbol.opacity) THEN originalSymbol.opacity ELSE Unit
      originalFillOpacity ==
        ClampAlpha(IF originalSymbolOpacity = 0 THEN 0
                   ELSE (originalSymbol.a * Unit) \div originalSymbolOpacity)
      originalOutlineOpacity ==
        ClampAlpha(IF originalSymbolOpacity = 0 THEN 0
                   ELSE IF isDefined(originalSymbol.oa) THEN originalSymbol.oa ELSE Unit)
      s1 == IF isDefined(to.scale)
            THEN [fromSymbol EXCEPT !.size =
                    Interpolate(fromSymbol.size,
                                (originalSymbol.size * to.scale) \div Unit, progress)]
            ELSE fromSymbol
      s2 == IF isDefined(to.rotate)
            THEN [s1 EXCEPT !.angle = Interpolate(fromSymbol.angle, to.rotate, progress)]
            ELSE s1
      s3 == IF isDefined(to.opacity)
            THEN [s2 EXCEPT !.a =
                    ClampAlpha(Interpolate(fromSymbol.a,
                                 (originalFillOpacity * to.opacity) \div Unit, progress))]
            ELSE s2
      s4 == IF isDefined(to.opacity) /\ isDefined(originalSymbol.oa)
            THEN [s3 EXCEPT !.oa =
                    ClampAlpha(Interpolate(fromSymbol.oa,
                                 (originalOutlineOpacity * to.opacity) \div Unit, progress))]
            ELSE s3
  IN s4

\* JavaScript's %, whose result has the sign of the dividend
JsRem(x, n) == IF x >= 0 THEN x % n ELSE -((-x) % n)

\* cimSymbolUtils.scaleCIMSymbolTo and applyCIMSymbolRotation set the size and
\* the rotation that getCIMSymbolSize and getCIMSymbolRotation read
\* updateCIMSymbolPointMarker that always writes the rotation it read
updateCIMSymbolPointMarkerNormalises(progress, fromSymbol, to, originalSymbol) ==
  LET fromAngle == JsRem(fromSymbol.angle, 360)
      s1 == IF isDefined(to.scale)
            THEN [fromSymbol EXCEPT !.size =
                    Interpolate(fromSymbol.size,
                                (originalSymbol.size * to.scale) \div Unit, progress)]
            ELSE fromSymbol
  IN [s1 EXCEPT !.angle = IF isDefined(to.rotate)
                          THEN Interpolate(fromAngle, to.rotate, progress)
                          ELSE fromAngle]

updateCIMSymbolPointMarker(progress, fromSymbol, to, originalSymbol) ==
  LET fromAngle == JsRem(fromSymbol.angle, 360)
      s1 == IF isDefined(to.scale)
            THEN [fromSymbol EXCEPT !.size =
                    Interpolate(fromSymbol.size,
                                (originalSymbol.size * to.scale) \div Unit, progress)]
            ELSE fromSymbol
      s2 == IF isDefined(to.rotate)
            THEN [s1 EXCEPT !.angle = Interpolate(fromAngle, to.rotate, progress)]
            ELSE s1
  IN s2

\* extractAttributeValue(url, "opacity"): the text after the first opacity=
\* in the url, null (Undef) when there is none
extractAttributeValue(url) == url.opacity

\* Number.parseFloat of the decimal text of a number gives the number back
parseFloat(text) == text

\* localStorage.getItem("image_" + url) is truthy
getImageAsBase64(url, cache) == url.image \in cache

\* The closure of throttleAsync(func, wait) after the call that created it:
\* timerId is the time the pending timeout is due (0 for undefined), promise the
\* invocation of func whose promise is held (0 for undefined); invoked lists
\* the invocations of func and returned the promise every wrapper call returned.
NoThrottle ==
  [timerId |-> 0, lastArgs |-> "", promise |-> 0, now |-> 1,
   invoked |-> <<>>, returned |-> <<>>]

\* no fetch in flight, nothing logged
NoNetwork == [pending |-> <<>>, errors |-> 0]

\* generateBase64Image that does not fetch an image that is being fetched
generateBase64ImageOnce(net, url) ==
  IF \E i \in 1..Len(net.pending) : net.pending[i] = url.image THEN net
  ELSE [net EXCEPT !.pending = Append(@, url.image)]

\* generateBase64Image(url) up to its await fetch(url)
generateBase64Image(net, url) == [net EXCEPT !.pending = Append(@, url.image)]

\* what a call of getImageAsBase64(url) does to the network: nothing when the
\* image is cached, else generateBase64Image(url)
getImageAsBase64Fetches(net, url, cache) ==
  IF getImageAsBase64(url, cache) THEN net ELSE generateBase64Image(net, url)

\* the fetches a call of updatePictureMarker starts
updatePictureMarkerFetches(net, to, originalSymbol, cache) ==
  IF isDefined(to.opacity) THEN getImageAsBase64Fetches(net, originalSymbol.url, cache)
  ELSE net

updatePictureMarker(progress, fromSymbol, to, originalSymbol, cache) ==
  LET s1 == IF isDefined(to.scale)
            THEN [fromSymbol EXCEPT
                    !.width = Interpolate(fromSymbol.width,
                                (originalSymbol.width * to.scale) \div Unit, progress),
                    !.height = Interpolate(fromSymbol.height,
                                (originalSymbol.height * to.scale) \div Unit, progress)]
            ELSE fromSymbol
      s2 == IF isDefined(to.rotate)
            THEN [s1 EXCEPT !.angle = Interpolate(fromSymbol.angle, to.rotate, progress)]
            ELSE s1
      originalOpacity ==
        IF originalSymbol.opacity # Undef THEN originalSymbol.opacity ELSE Unit
      extracted == extractAttributeValue(fromSymbol.url)
      fromOpacity == parseFloat(IF extracted # Undef THEN extracted ELSE originalOpacity)
  IN IF isDefined(to.opacity) /\ getImageAsBase64(originalSymbol.url, cache)
     THEN [s2 EXCEPT !.url =
             [image |-> originalSymbol.url.image, svg |-> TRUE,
              opacity |-> Interpolate(fromOpacity, to.opacity, progress)]]
     ELSE s2

\* getAnimationStepFunction: the default step function of the symbol's type
onStep(progress, fromSymbol, to, originalSymbol, cache) ==
  CASE originalSymbol.type = "simple-marker" ->
         updateSimpleMarker(progress, fromSymbol, to, originalSymbol)
    [] originalSymbol.type = "picture-marker" ->
         updatePictureMarker(progress, fromSymbol, to, originalSymbol, cache)
    [] originalSymbol.type = "cim" ->
         updateCIMSymbolPointMarker(progress, fromSymbol, to, originalSymbol)
    [] OTHER -> originalSymbol


(***************************************************************************)
(* State.                                                                  *)
(***************************************************************************)
VARIABLES
  symbol,                     \* graphic.symbol of every graphic
  symbolAnimation,            \* graphic.symbolAnimation: index in anims, 0 when absent
  anims,                      \* the AnimatedSymbol objects
  runs,                       \* the closures created by the calls of start
  rafQueue,                   \* frame callbacks requested for the next frame
  frameQueue,                 \* frame callbacks of the frame in progress, still to run
  destroyed,                  \* graphics on which destroy() was called
  isGraphicsLayerView,        \* the manager's parent layer view is a graphics layer view
  objectId,                   \* graphic.getObjectId() of every graphic, Undef when it has none
  layerOpacity,               \* parentLayerView.layer.opacity
  animatedGraphics,           \* the manager's registry: entries [id, graphic] in insertion order
  graphicsObjectIdsToFilter,  \* the excluded object ids, in insertion order
  where,                      \* parentLayerView.featureEffect.filter.where
  overlay,                    \* the graphics in animationGraphicsOverlay.graphics
  deferred,                   \* continuations waiting for whenOnce(!mapView.updating)
  map,                        \* mapView.map.layers, mapView.layerViews and the manager's part in them
  localStorage,               \* the image urls with an entry in localStorage
  network,                    \* the image fetches in flight and the errors logged for failed ones
  throttle,                   \* the closure of one throttleAsync(func, wait), its timer and the clock
  update,                     \* the latest direct call of an update function
  last                        \* the public call the latest step made, and what it returned

vars == <<symbol, symbolAnimation, anims, runs, rafQueue, frameQueue, destroyed,
          isGraphicsLayerView, objectId, layerOpacity, animatedGraphics, graphicsObjectIdsToFilter,
          where, overlay, deferred, map, localStorage, network, throttle, update,
          last>>

\* The mutable heap, passed through the (nested, re-entrant) method calls.
Heap ==
  [symbol |-> symbol, symbolAnimation |-> symbolAnimation, anims |-> anims, runs |-> runs,
   rafQueue |-> rafQueue, frameQueue |-> frameQueue, destroyed |-> destroyed,
   animatedGraphics |-> animatedGraphics,
   graphicsObjectIdsToFilter |-> graphicsObjectIdsToFilter, where |-> where,
   overlay |-> overlay, deferred |-> deferred, map |-> map,
   localStorage |-> localStorage, prevented |-> FALSE]

Commit(h) ==
  /\ symbol' = h.symbol
  /\ symbolAnimation' = h.symbolAnimation
  /\ anims' = h.anims
  /\ runs' = h.runs
  /\ rafQueue' = h.rafQueue
  /\ frameQueue' = h.frameQueue
  /\ destroyed' = h.destroyed
  /\ animatedGraphics' = h.animatedGraphics
  /\ graphicsObjectIdsToFilter' = h.graphicsObjectIdsToFilter
  /\ where' = h.where
  /\ overlay' = h.overlay
  /\ deferred' = h.deferred
  /\ map' = h.map

SeqWithout(s, x) == SelectSeq(s, LAMBDA y : y # x)
InSeq(s, x) == \E i \in 1..Len(s) : s[i] = x

(***************************************************************************)
(* AnimatedSymbol                                                          *)
(***************************************************************************)
\* startYoYoAnimation's neutral target { scale: 1, rotate: 0, opacity: 1 }
NeutralTarget == [scale |-> Unit, rotate |-> 0, opacity |-> Unit]

\* The props an onFinish callback of kind "restart" passes to start.
ChainProps ==
  [to |-> [scale |-> Unit, rotate |-> Undef, opacity |-> Undef], yoyo |-> FALSE,
   removeOnComplete |-> FALSE, onFinish |-> "none"]

\* applyOpacityToSymbol: records the opacity on originalSymbol and returns the
\* symbol the constructor shows.
applyOpacityToSymbol(cloned, opacity, cache) ==
  LET original == [cloned EXCEPT !.opacity = opacity]
      step == [scale |-> Undef, rotate |-> Undef, opacity |-> opacity]
  IN CASE cloned.type = "simple-marker" ->
            [originalSymbol |-> original,
             shown |-> IF opacity = Unit THEN original
                       ELSE updateSimpleMarker(Unit, original, step, original)]
       [] cloned.type = "picture-marker" ->
            [originalSymbol |-> original,
             shown |-> IF opacity = Unit THEN original
                       ELSE updatePictureMarker(Unit, original, step, original, cache)]
       [] OTHER -> [originalSymbol |-> cloned, shown |-> cloned]

\* new AnimatedSymbol({graphic, easingConfig, id, isOverlay, opacity, animationManager}),
\* attached to the graphic by createAnimatedGraphic
createAnimatedGraphic(h, graphic, easingConfig, id, isOverlay, opacity, animationManager) ==
  LET ap == applyOpacityToSymbol(cloneSymbol(h.symbol[graphic]), opacity, h.localStorage)
      an == [id |-> id, isOverlay |-> isOverlay, easingConfig |-> easingConfig,
             graphic |-> graphic, opacity |-> opacity,
             originalSymbol |-> ap.originalSymbol,
             animationManager |-> animationManager,
             isAnimating |-> FALSE, abortCurrentAnimation |-> 0,
             isHeadingOut |-> FALSE, lastCall |-> "none", vetoed |-> FALSE]
  IN [h EXCEPT !.anims = Append(@, an),
               !.symbol[graphic] = ap.shown,
               !.symbolAnimation[graphic] = Len(h.anims) + 1]

RECURSIVE start(_, _, _, _), stop(_, _), springStop(_, _),
          handleAnimationComplete(_, _, _), startYoYoAnimation(_, _),
          removeGraphic(_, _), resetSymbol(_, _), removeAnimatedGraphic(_, _, _)

requestAnimationFrame(h, r) == [h EXCEPT !.rafQueue = Append(@, r)]

cancelAnimationFrame(h, r) ==
  [h EXCEPT !.rafQueue = SeqWithout(@, r), !.frameQueue = SeqWithout(@, r)]

\* A run that takes the animator's originalSymbol as its interpolation origin
NewRunFromOriginal(h, a, props, origin, type) ==
  [anim |-> a, type |-> type, props |-> props,
   fromSymbol |-> cloneSymbol(h.anims[a].originalSymbol),
   elapsed |-> Undef, abort |-> FALSE,
   springAnimating |-> FALSE, springSteps |-> 0,
   origin |-> IF origin = 0 THEN Len(h.runs) + 1 ELSE origin,
   onStartCalls |-> 0, onStartAfterUpdate |-> FALSE, onFinishCalls |-> 0,
   finished |-> FALSE, finishedAt |-> Undef, updated |-> FALSE, progress |-> Undef]

\* The closure state of one call of start.  origin is the call of the public
\* start whose props (and callbacks) the run carries: a yoyo restart keeps it.
NewRun(h, a, props, origin, type) ==
  [anim |-> a, type |-> type, props |-> props,
   fromSymbol |-> cloneSymbol(h.symbol[h.anims[a].graphic]),
   elapsed |-> Undef, abort |-> FALSE,
   springAnimating |-> FALSE, springSteps |-> 0,
   origin |-> IF origin = 0 THEN Len(h.runs) + 1 ELSE origin,
   onStartCalls |-> 0, onStartAfterUpdate |-> FALSE, onFinishCalls |-> 0,
   finished |-> FALSE, finishedAt |-> Undef, updated |-> FALSE, progress |-> Undef]

\* A run whose last callback has returned is never stepped again: what its
\* closure held for stepping (fromSymbol, the elapsed time, the spring's clock and
\* value) is garbage and is dropped; the abort flag and the callback records stay.
Retire(h, r) ==
  [h EXCEPT !.runs[r].fromSymbol = OtherSymbol,
            !.runs[r].elapsed = Undef,
            !.runs[r].springSteps = 0,
            !.runs[r].progress = IF h.runs[r].finished THEN @ ELSE Undef]

\* animationProps.onStart?.()
onStart(h, r) ==
  [h EXCEPT !.runs[r].onStartCalls = @ + 1,
            !.runs[r].onStartAfterUpdate = h.runs[r].updated]

\* updateSymbol with an update function that works on the symbol it was given as
\* current instead of a clone of it
updateSymbolInPlace(h, r, progress) ==
  LET run == h.runs[r]
      an == h.anims[run.anim]
      sym == onStep(progress, run.fromSymbol, run.props.to, an.originalSymbol,
                    h.localStorage)
  IN [h EXCEPT !.symbol[an.graphic] = sym,
               !.runs[r].fromSymbol = sym,
               !.runs[r].updated = TRUE,
               !.runs[r].progress = progress]

updateSymbol(h, r, progress) ==
  LET run == h.runs[r]
      an == h.anims[run.anim]
  IN [h EXCEPT !.symbol[an.graphic] =
                  onStep(progress, run.fromSymbol, run.props.to, an.originalSymbol,
                        h.localStorage),
               !.runs[r].updated = TRUE,
               !.runs[r].progress = progress]

\* animationLoop that does not fire onStart
animateWithEasingNoOnStart(h, a, props, origin) ==
  LET r == Len(h.runs) + 1
      h1 == [h EXCEPT !.runs = Append(@, NewRun(h, a, props, origin, "easing"))]
      h3 == requestAnimationFrame(h1, r)
  IN [h3 EXCEPT !.anims[a].abortCurrentAnimation = r]

\* animateWithEasing and animationLoop up to the first requestAnimationFrame
animateWithEasing(h, a, props, origin) ==
  LET r == Len(h.runs) + 1
      h1 == [h EXCEPT !.runs = Append(@, NewRun(h, a, props, origin, "easing"))]
      h2 == onStart(h1, r)
      h3 == requestAnimationFrame(h2, r)
  IN [h3 EXCEPT !.anims[a].abortCurrentAnimation = r]

\* animateWithSpring, setUpSpringAnimator and Spring.start()
animateWithSpring(h, a, props, origin) ==
  LET r == Len(h.runs) + 1
      h1 == [h EXCEPT !.runs = Append(@, NewRun(h, a, props, origin, "spring")),
                      !.anims[a].abortCurrentAnimation = r]
      h2 == [h1 EXCEPT !.runs[r].springAnimating = TRUE]
      h3 == onStart(h2, r)
  IN requestAnimationFrame(h3, r)

\* the closure this.abortCurrentAnimation, called by stop
abortCurrentAnimation(h, a) ==
  LET r == h.anims[a].abortCurrentAnimation IN
  IF r = 0 THEN h
  ELSE LET h1 == [h EXCEPT !.runs[r].abort = TRUE]
       IN IF h.runs[r].type = "spring" THEN springStop(h1, r) ELSE h1

stop(h, a) == abortCurrentAnimation([h EXCEPT !.anims[a].isAnimating = FALSE], a)

start(h, a, props, origin) ==
  LET h1 == stop(h, a)
      h2 == [h1 EXCEPT !.anims[a].isAnimating = TRUE]
  IN IF h2.anims[a].easingConfig.type = "spring"
     THEN animateWithSpring(h2, a, props, origin)
     ELSE animateWithEasing(h2, a, props, origin)

\* Spring.stop(): a spring that is animating notifies its onStop listener (the
\* closure of setUpSpringAnimator) and cancels its pending frame.
springStop(h, r) ==
  IF ~h.runs[r].springAnimating THEN h
  ELSE LET h1 == [h EXCEPT !.runs[r].springAnimating = FALSE]
           h2 == handleAnimationComplete(h1, r, h1.runs[r].abort)
       IN Retire(cancelAnimationFrame(h2, r), r)

\* animationProps?.onFinish?.(): the callback does nothing or starts ChainProps
onFinish(h, r) ==
  LET h1 == [h EXCEPT !.runs[r].onFinishCalls = @ + 1, !.runs[r].finished = TRUE,
                      !.runs[r].finishedAt = h.runs[r].progress]
  IN IF h.runs[r].props.onFinish = "restart"
     THEN start(h1, h.runs[r].anim, ChainProps, 0)
     ELSE h1

handleAnimationComplete(h, r, aborted) ==
  LET a == h.runs[r].anim IN
  IF ~aborted
  THEN LET h1 == onFinish(h, r)
           h2 == [h1 EXCEPT !.anims[a].isAnimating = FALSE]
       IN IF h.runs[r].props.removeOnComplete THEN removeGraphic(h2, a) ELSE h2
  ELSE IF h.runs[r].props.yoyo THEN startYoYoAnimation(h, r)
  ELSE h

removeGraphic(h, a) ==
  IF h.anims[a].animationManager
  THEN removeAnimatedGraphic(h, h.anims[a].graphic, h.anims[a].id)
  ELSE [h EXCEPT !.destroyed = @ \cup {h.anims[a].graphic}]

startYoYoAnimation(h, r) ==
  LET a == h.runs[r].anim
      to == IF h.anims[a].isHeadingOut THEN h.runs[r].props.to ELSE NeutralTarget
      h1 == [h EXCEPT !.anims[a].isHeadingOut = ~@]
  IN start(h1, a, [h.runs[r].props EXCEPT !.to = to], h.runs[r].origin)

resetSymbol(h, a) ==
  LET h1 == stop(h, a)
  IN [h1 EXCEPT !.symbol[h.anims[a].graphic] = h.anims[a].originalSymbol]

\* calculateProgress: a named easing function (linear) is computed, a
\* caller-supplied one returns the value custom
calculateProgress(easing, elapsed, duration, custom) ==
  IF easing = "linear" THEN (elapsed * Unit) \div duration ELSE custom

\* finalizeAnimation that leaves the symbol where the last tick put it
finalizeAnimationNoFinalUpdate(h, r, abort) == handleAnimationComplete(h, r, abort)

finalizeAnimation(h, r, abort) ==
  LET h1 == handleAnimationComplete(h, r, abort)
  IN IF ~abort THEN updateSymbol(h1, r, Unit) ELSE h1

\* a frame callback that ends the run only when it was cancelled
stepNoDeadline(h, r, custom) ==
  LET cfg == h.anims[h.runs[r].anim].easingConfig
      h1 == IF h.runs[r].elapsed = Undef
            THEN [h EXCEPT !.runs[r].elapsed = 0] ELSE h
      elapsed == h1.runs[r].elapsed
  IN IF h1.runs[r].abort
     THEN Retire(finalizeAnimation(h1, r, h1.runs[r].abort), r)
     ELSE requestAnimationFrame(
            updateSymbol(h1, r,
              calculateProgress(cfg.easingFunction, elapsed, cfg.duration, custom)),
            r)

\* the frame callback step of animationLoop
\* the run keeps timestamp - startTimeStamp: Undef while startTimeStamp is null,
\* 0 at the first tick, advanced by every later frame
step(h, r, custom) ==
  LET cfg == h.anims[h.runs[r].anim].easingConfig
      h1 == IF h.runs[r].elapsed = Undef
            THEN [h EXCEPT !.runs[r].elapsed = 0] ELSE h
      elapsed == h1.runs[r].elapsed
  IN IF h1.runs[r].abort \/ elapsed >= cfg.duration
     THEN Retire(finalizeAnimation(h1, r, h1.runs[r].abort), r)
     ELSE requestAnimationFrame(
            updateSymbol(h1, r,
              calculateProgress(cfg.easingFunction, elapsed, cfg.duration, custom)),
            r)

\* a spring that stops where it came to rest, without the update at toValue
springStepNoSnap(h, r, value, atRest) ==
  LET h1 == updateSymbol([h EXCEPT !.runs[r].springSteps = @ + 1], r, value)
  IN IF atRest THEN springStop(h1, r)
     ELSE requestAnimationFrame(h1, r)

\* the frame callback of a Spring: onUpdate with the integrated value; a spring
\* at rest is set to toValue, updates once more and stops.
springStep(h, r, value, atRest) ==
  LET h1 == updateSymbol([h EXCEPT !.runs[r].springSteps = @ + 1], r, value)
  IN IF atRest THEN springStop(updateSymbol(h1, r, Unit), r)
     ELSE requestAnimationFrame(h1, r)

(***************************************************************************)
(* SymbolAnimationManager                                                  *)
(***************************************************************************)
\* getObjectId()?.toString()
ObjectIdString(n) == IF n = 7 THEN "7" ELSE IF n = 9 THEN "9" ELSE "0"

\* `${uid}-uid`
UidString(graphic) == IF graphic = "g1" THEN "g1-uid" ELSE "g2-uid"

RegistryIds(h) == { h.animatedGraphics[i].id : i \in 1..Len(h.animatedGraphics) }

getUniqueIdFromGraphic(h, graphic) ==
  IF h.symbolAnimation[graphic] # 0 THEN h.anims[h.symbolAnimation[graphic]].id
  ELSE IF objectId[graphic] # Undef THEN ObjectIdString(objectId[graphic])
  ELSE UidString(graphic)

\* animationId "" stands for an absent (or empty) id, NoGraphic for an absent graphic
getUniqueId(h, graphic, animationId) ==
  IF animationId # "" THEN animationId
  ELSE IF graphic # NoGraphic THEN getUniqueIdFromGraphic(h, graphic)
  ELSE ""

hasAnimatedGraphic(h, graphic, animationId) ==
  getUniqueId(h, graphic, animationId) \in RegistryIds(h)

\* animatedGraphics.get(id), NoGraphic for undefined
getAnimatedGraphic(h, graphic, animationId) ==
  LET id == getUniqueId(h, graphic, animationId) IN
  IF id \in RegistryIds(h)
  THEN (CHOOSE e \in { h.animatedGraphics[i] : i \in 1..Len(h.animatedGraphics) } :
          e.id = id).graphic
  ELSE NoGraphic

\* animatedGraphics.delete(id)
RegistryDelete(h, id) ==
  [h EXCEPT !.animatedGraphics = SelectSeq(@, LAMBDA e : e.id # id)]

\* animatedGraphics.set(id, graphic), for an id that is not a key
RegistrySet(h, id, graphic) ==
  [h EXCEPT !.animatedGraphics = Append(@, [id |-> id, graphic |-> graphic])]

NeverTrue == [kind |-> "1<>1", ids |-> <<>>]

\* the map before a manager exists
NoMap ==
  [layers |-> <<>>, layerViews |-> <<>>, overlayLayer |-> "", layerOrderListener |-> FALSE,
   destroyCalled |-> FALSE]

updateExcludedFeatures(h) ==
  [h EXCEPT !.where = IF Len(h.graphicsObjectIdsToFilter) > 0
                      THEN [kind |-> "IN", ids |-> h.graphicsObjectIdsToFilter]
                      ELSE NeverTrue]

\* if (objectId): undefined and 0 are falsy
Truthy(n) == n # Undef /\ n # 0

addExcludedFeature(h, graphic) ==
  IF Truthy(objectId[graphic])
  THEN updateExcludedFeatures(
         [h EXCEPT !.graphicsObjectIdsToFilter =
            IF InSeq(@, objectId[graphic]) THEN @ ELSE Append(@, objectId[graphic])])
  ELSE h

\* removeExcludedFeature that leaves the filter of the parent as it was
removeExcludedFeatureStale(h, graphic) ==
  IF Truthy(objectId[graphic])
  THEN [h EXCEPT !.graphicsObjectIdsToFilter = SeqWithout(@, objectId[graphic])]
  ELSE h

removeExcludedFeature(h, graphic) ==
  IF Truthy(objectId[graphic])
  THEN updateExcludedFeatures(
         [h EXCEPT !.graphicsObjectIdsToFilter = SeqWithout(@, objectId[graphic])])
  ELSE h

\* a before-add handler that excludes the feature of every added graphic
beforeAddAlways(h, graphic) == addExcludedFeature(h, graphic)

\* the before-add handler of addGraphicsLayerWatchers
beforeAdd(h, graphic) ==
  IF ~h.anims[h.symbolAnimation[graphic]].isOverlay
  THEN addExcludedFeature(h, graphic)
  ELSE h

\* animationGraphicsOverlay.add(graphic); the handlers exist only on the overlay
\* layer the manager created itself
overlayAdd(h, graphic) ==
  LET h1 == IF isGraphicsLayerView THEN h ELSE beforeAdd(h, graphic)
  IN [h1 EXCEPT !.overlay = @ \cup {graphic}]

\* the before-remove handler of addGraphicsLayerWatchers; prevented records
\* e.preventDefault(), and vetoed remembers on the animator that a removal of its
\* graphic was prevented
beforeRemove(h, graphic) ==
  LET an == h.anims[h.symbolAnimation[graphic]] IN
  IF ~hasAnimatedGraphic(h, graphic, an.id) THEN h
  ELSE IF an.isOverlay THEN RegistryDelete(h, getUniqueId(h, graphic, an.id))
  ELSE IF an.isAnimating
       THEN [h EXCEPT !.prevented = TRUE, !.anims[h.symbolAnimation[graphic]].vetoed = TRUE]
  ELSE LET h1 == removeExcludedFeature(h, graphic)
       IN [h1 EXCEPT !.deferred = Append(@, graphic)]

\* animationGraphicsOverlay.remove(graphic): nothing for a graphic that is not
\* in the collection, else before-remove, which may veto
overlayRemove(h, graphic) ==
  IF graphic \notin h.overlay THEN h
  ELSE LET h1 == IF isGraphicsLayerView THEN h
                 ELSE beforeRemove([h EXCEPT !.prevented = FALSE], graphic)
       IN IF h1.prevented THEN [h1 EXCEPT !.prevented = FALSE]
          ELSE [h1 EXCEPT !.overlay = @ \ {graphic}]

\* the continuation of whenOnce(() => !mapView.updating) in the before-remove
\* handler; isAnimating was captured false
deferredRemove(h, graphic) ==
  LET h1 == overlayRemove(h, graphic)
  IN RegistryDelete(h1, getUniqueId(h1, graphic, h1.anims[h1.symbolAnimation[graphic]].id))

\* the opacity makeAnimatableSymbol passes on; Undef for an absent argument
resolveOpacity(opacity) ==
  IF opacity # Undef /\ opacity # 0 THEN Min(Unit, Max(0, opacity))
  ELSE IF isGraphicsLayerView THEN Unit ELSE layerOpacity

\* makeAnimatableSymbol that does not look the id up first
makeAnimatableSymbolAlways(h, graphic, easingConfig, isOverlay, animationId, opacity) ==
  LET uniqueGraphicId == getUniqueId(h, graphic, animationId)
      h1 == createAnimatedGraphic(h, graphic, easingConfig, uniqueGraphicId,
                                  isOverlay, resolveOpacity(opacity), TRUE)
      h2 == RegistrySet(RegistryDelete(h1, uniqueGraphicId), uniqueGraphicId, graphic)
  IN IF ~isGraphicsLayerView \/ isOverlay THEN overlayAdd(h2, graphic) ELSE h2

\* makeAnimatableSymbol that adds every graphic to the overlay
makeAnimatableSymbolAddsAlways(h, graphic, easingConfig, isOverlay, animationId, opacity) ==
  LET uniqueGraphicId == getUniqueId(h, graphic, animationId) IN
  IF hasAnimatedGraphic(h, NoGraphic, uniqueGraphicId) THEN h
  ELSE LET h1 == createAnimatedGraphic(h, graphic, easingConfig, uniqueGraphicId,
                                       isOverlay, resolveOpacity(opacity), TRUE)
           h2 == RegistrySet(h1, uniqueGraphicId, graphic)
       IN overlayAdd(h2, graphic)

makeAnimatableSymbol(h, graphic, easingConfig, isOverlay, animationId, opacity) ==
  LET uniqueGraphicId == getUniqueId(h, graphic, animationId) IN
  IF hasAnimatedGraphic(h, NoGraphic, uniqueGraphicId) THEN h
  ELSE LET h1 == createAnimatedGraphic(h, graphic, easingConfig, uniqueGraphicId,
                                       isOverlay, resolveOpacity(opacity), TRUE)
           h2 == RegistrySet(h1, uniqueGraphicId, graphic)
       IN IF ~isGraphicsLayerView \/ isOverlay THEN overlayAdd(h2, graphic) ELSE h2

\* what makeAnimatableSymbol returns
makeAnimatableSymbolResult(h, graphic, animationId) ==
  LET uniqueGraphicId == getUniqueId(h, graphic, animationId) IN
  IF hasAnimatedGraphic(h, NoGraphic, uniqueGraphicId)
  THEN getAnimatedGraphic(h, NoGraphic, uniqueGraphicId)
  ELSE graphic

\* removeAnimatedGraphic that resets and removes the graphic it was given
\* without looking the id up
removeAnimatedGraphicUnguarded(h, graphic, animationId) ==
  LET uniqueGraphicId == getUniqueId(h, graphic, animationId) IN
  IF uniqueGraphicId = "" THEN h
  ELSE LET h1 ==
             IF graphic # NoGraphic /\ h.symbolAnimation[graphic] # 0
             THEN LET a == h.symbolAnimation[graphic]
                      h2 == resetSymbol(h, a)
                  IN IF ~isGraphicsLayerView \/ h2.anims[a].isOverlay
                     THEN overlayRemove(h2, graphic)
                     ELSE h2
             ELSE h
       IN RegistryDelete(h1, uniqueGraphicId)

removeAnimatedGraphic(h, graphic, animationId) ==
  LET uniqueGraphicId == getUniqueId(h, graphic, animationId) IN
  IF uniqueGraphicId = "" THEN h
  ELSE LET h1 ==
             IF hasAnimatedGraphic(h, graphic, uniqueGraphicId)
             THEN LET animatedGraphic == getAnimatedGraphic(h, NoGraphic, uniqueGraphicId)
                      a == h.symbolAnimation[animatedGraphic]
                      h2 == resetSymbol(h, a)
                  IN IF ~isGraphicsLayerView \/ h2.anims[a].isOverlay
                     THEN overlayRemove(h2, animatedGraphic)
                     ELSE h2
             ELSE h
       IN RegistryDelete(h1, uniqueGraphicId)

\* Array.from(this.animatedGraphics.values())
getAllAnimatedGraphics(h) ==
  [i \in 1..Len(h.animatedGraphics) |-> h.animatedGraphics[i].graphic]

\* getAllAnimatedGraphics().forEach(g => removeAnimatedGraphic({ graphic: g }))
RECURSIVE removeEach(_, _)
removeEach(h, graphics) ==
  IF graphics = <<>> THEN h
  ELSE removeEach(removeAnimatedGraphic(h, Head(graphics), ""), Tail(graphics))

removeAllAnimatedGraphics(h) == removeEach(h, getAllAnimatedGraphics(h))

\* Array.prototype.findIndex / Collection.findIndex: 0-based, -1 when absent
findIndex(s, x) ==
  IF \E i \in 1..Len(s) : s[i] = x
  THEN (CHOOSE i \in 1..Len(s) : s[i] = x /\ \A j \in 1..(i - 1) : s[j] # x) - 1
  ELSE -1

\* Collection.add(item, index): inserted at the 0-based index, at the end when
\* the index is beyond it
InsertAt(s, x, index) ==
  LET i == Min(Max(index, 0), Len(s))
  IN SubSeq(s, 1, i) \o <<x>> \o SubSeq(s, i + 1, Len(s))

\* setupAnimatedGraphicsLayer that adds the overlay on top of the map
setupAnimatedGraphicsLayerOnTop(h) ==
  IF isGraphicsLayerView
  THEN [h EXCEPT !.map.overlayLayer = "parent"]
  ELSE [h EXCEPT !.map.layers = Append(@, "overlay"),
                 !.map.overlayLayer = "overlay",
                 !.map.layerOrderListener = TRUE,
                 !.where = NeverTrue]

\* new GraphicsLayer, map.add(overlay, index of the parent layer view + 1), the
\* watch of map.allLayers, the feature effect and the collection handlers;
\* on a graphics layer view only: return layerView.layer
setupAnimatedGraphicsLayer(h) ==
  IF isGraphicsLayerView
  THEN [h EXCEPT !.map.overlayLayer = "parent"]
  ELSE [h EXCEPT !.map.layers =
                    InsertAt(@, "overlay", findIndex(h.map.layerViews, "parent") + 1),
                 !.map.overlayLayer = "overlay",
                 !.map.layerOrderListener = TRUE,
                 !.where = NeverTrue]

\* the callback of the watch of map.allLayers
layerOrderChanged(h) ==
  LET layerIndex == findIndex(h.map.layers, "overlay")
      parentLayerIndex == findIndex(h.map.layers, "parent")
  IN IF h.map.layerOrderListener /\ layerIndex > parentLayerIndex + 1
     THEN [h EXCEPT !.map.layers =
                      InsertAt(SeqWithout(@, "overlay"), "overlay", parentLayerIndex + 1)]
     ELSE h

\* destroy()
destroy(h) ==
  LET h1 == removeAllAnimatedGraphics(h)
  IN [h1 EXCEPT !.map.layerOrderListener = FALSE,
                !.map.layers = SeqWithout(@, h.map.overlayLayer),
                !.map.destroyCalled = TRUE]

(***************************************************************************)
(* The inputs of the animator specification.                               *)
(***************************************************************************)
ToScale == [scale |-> Unit + 1, rotate |-> Undef, opacity |-> Undef]
ToRotate == [scale |-> Undef, rotate |-> 90, opacity |-> Undef]
ToBoth == [scale |-> 0, rotate |-> -30, opacity |-> Undef]

Props(to, yoyo, removeOnComplete, onFinishKind) ==
  [to |-> to, yoyo |-> yoyo, removeOnComplete |-> removeOnComplete,
   onFinish |-> onFinishKind]

AnimProps ==
  { Props(ToScale, FALSE, FALSE, "none"),
    Props(ToRotate, FALSE, FALSE, "none"),
    Props(ToBoth, TRUE, FALSE, "none"),
    Props(ToRotate, FALSE, TRUE, "none"),
    Props(ToScale, FALSE, FALSE, "restart") }

SpringConfig == [type |-> "spring", duration |-> 0, easingFunction |-> "none"]

EasingConfigs ==
  { SpringConfig }
    \cup [type : {"easing"}, duration : {2}, easingFunction : {"linear", "custom"}]

\* values of a caller-supplied easing function and of a moving spring
ProgressValues == {1, Unit + 1}

\* frame-to-frame timestamp differences
FrameDeltas == {1, 2}

InitialSymbols == { SimpleMarker(4, 30, 1, Unit), OtherSymbol }

NoFilter == [kind |-> "unset", ids |-> <<>>]

\* A public call: the method, the graphic and the resolved id it was about, what
\* it returned (or found), whether the id was registered and the filter predicate
\* when it was made.
NoCall ==
  [op |-> "none", graphic |-> NoGraphic, id |-> "", ret |-> NoGraphic,
   had |-> FALSE, before |-> NoFilter, opacity |-> Undef]
Call(op, graphic, id, ret) ==
  [op |-> op, graphic |-> graphic, id |-> id, ret |-> ret,
   had |-> \E i \in 1..Len(animatedGraphics) : animatedGraphics[i].id = id,
   before |-> where, opacity |-> Undef]

\* no update function was called directly
NoUpdate ==
  [fn |-> "none", progress |-> 0, to |-> [scale |-> Undef, rotate |-> Undef, opacity |-> Undef],
   fromSymbol |-> OtherSymbol, originalSymbol |-> OtherSymbol, result |-> OtherSymbol]

\* a map whose only layer is the parent layer
ParentMap == [NoMap EXCEPT !.layers = <<"parent">>, !.layerViews = <<"parent">>]

EmptyHeap ==
  [symbol |-> [g \in Graphics |-> OtherSymbol],
   symbolAnimation |-> [g \in Graphics |-> 0],
   anims |-> <<>>, runs |-> <<>>, rafQueue |-> <<>>, frameQueue |-> <<>>,
   destroyed |-> {}, animatedGraphics |-> <<>>,
   graphicsObjectIdsToFilter |-> <<>>, where |-> NoFilter,
   overlay |-> {}, deferred |-> <<>>, map |-> NoMap, localStorage |-> {},
   prevented |-> FALSE]

InitFrom(h) ==
  /\ symbol = h.symbol
  /\ symbolAnimation = h.symbolAnimation
  /\ anims = h.anims
  /\ runs = h.runs
  /\ rafQueue = h.rafQueue
  /\ frameQueue = h.frameQueue
  /\ destroyed = h.destroyed
  /\ animatedGraphics = h.animatedGraphics
  /\ graphicsObjectIdsToFilter = h.graphicsObjectIdsToFilter
  /\ where = h.where
  /\ overlay = h.overlay
  /\ deferred = h.deferred
  /\ map = h.map
  /\ localStorage = h.localStorage
  /\ network = NoNetwork
  /\ throttle = NoThrottle

(***************************************************************************)
(* The animator specification: one AnimatedSymbol, constructed without a   *)
(* manager on graphic g1, driven by its public methods and by the frames.  *)
(***************************************************************************)
AnimInit ==
  \E s \in InitialSymbols, cfg \in EasingConfigs :
    /\ InitFrom(createAnimatedGraphic([EmptyHeap EXCEPT !.symbol["g1"] = s],
                                      "g1", cfg, "animated-graphic", TRUE, Unit, FALSE))
    /\ isGraphicsLayerView = TRUE
    /\ objectId = [g \in Graphics |-> Undef]
    /\ layerOpacity = Unit
    /\ update = NoUpdate
    /\ last = NoCall

Idle == frameQueue = <<>>

\* graphic.symbolAnimation.start(props)
Start(g, props) ==
  /\ Idle
  /\ symbolAnimation[g] # 0
  /\ LET h == start(Heap, symbolAnimation[g], props, 0) IN
       /\ Len(h.runs) <= MaxRuns
       /\ Commit([h EXCEPT !.anims[symbolAnimation[g]].lastCall = "start"])
  /\ last' = Call("start", g, "", NoGraphic)
  /\ UNCHANGED <<isGraphicsLayerView, objectId, layerOpacity, localStorage, network, throttle, update>>

\* graphic.symbolAnimation.stop()
Stop(g) ==
  /\ Idle
  /\ symbolAnimation[g] # 0
  /\ LET h == stop(Heap, symbolAnimation[g]) IN
       /\ Len(h.runs) <= MaxRuns
       /\ Commit([h EXCEPT !.anims[symbolAnimation[g]].lastCall = "stop"])
  /\ last' = Call("stop", g, "", NoGraphic)
  /\ UNCHANGED <<isGraphicsLayerView, objectId, layerOpacity, localStorage, network, throttle, update>>

\* graphic.symbolAnimation.resetSymbol()
ResetSymbol(g) ==
  /\ Idle
  /\ symbolAnimation[g] # 0
  /\ LET h == resetSymbol(Heap, symbolAnimation[g]) IN
       /\ Len(h.runs) <= MaxRuns
       /\ Commit([h EXCEPT !.anims[symbolAnimation[g]].lastCall = "resetSymbol"])
  /\ last' = Call("resetSymbol", g, "", NoGraphic)
  /\ UNCHANGED <<isGraphicsLayerView, objectId, layerOpacity, localStorage, network, throttle, update>>

\* the browser begins an animation frame: the requested callbacks are due
AnimationFrame(dt) ==
  /\ Idle
  /\ rafQueue # <<>>
  /\ runs' = [r \in DOMAIN runs |->
                IF runs[r].elapsed = Undef THEN runs[r]
                ELSE [runs[r] EXCEPT !.elapsed =
                        Min(@ + dt, anims[runs[r].anim].easingConfig.duration)]]
  /\ frameQueue' = rafQueue
  /\ rafQueue' = <<>>
  /\ last' = NoCall
  /\ UNCHANGED <<symbol, symbolAnimation, anims, destroyed, isGraphicsLayerView,
                 objectId, layerOpacity, animatedGraphics, graphicsObjectIdsToFilter,
                 where, overlay, deferred, map, localStorage, network, throttle, update>>

\* the next callback of the frame is a step of an easing run
EasingFrame(custom) ==
  /\ frameQueue # <<>>
  /\ runs[Head(frameQueue)].type = "easing"
  /\ LET r == Head(frameQueue)
         h == step([Heap EXCEPT !.frameQueue = Tail(@)], r, custom) IN
       /\ Len(h.runs) <= MaxRuns
       /\ Commit(h)
  /\ last' = NoCall
  /\ UNCHANGED <<isGraphicsLayerView, objectId, layerOpacity, localStorage, network, throttle, update>>

\* the next callback of the frame is a step of a spring
SpringFrame(value, atRest) ==
  /\ frameQueue # <<>>
  /\ runs[Head(frameQueue)].type = "spring"
  /\ atRest \/ runs[Head(frameQueue)].springSteps < MaxSpringSteps
  /\ LET r == Head(frameQueue)
         h == springStep([Heap EXCEPT !.frameQueue = Tail(@)], r, value, atRest) IN
       /\ Len(h.runs) <= MaxRuns
       /\ Commit(h)
  /\ last' = NoCall
  /\ UNCHANGED <<isGraphicsLayerView, objectId, layerOpacity, localStorage, network, throttle, update>>

Frames ==
  \/ \E dt \in FrameDeltas : AnimationFrame(dt)
  \/ \E custom \in ProgressValues : EasingFrame(custom)
  \/ \E value \in ProgressValues, atRest \in BOOLEAN : SpringFrame(value, atRest)

AnimNext ==
  \/ \E props \in AnimProps : Start("g1", props)
  \/ Stop("g1")
  \/ ResetSymbol("g1")
  \/ Frames

AnimSpec == AnimInit /\ [][AnimNext]_vars


(***************************************************************************)
(* Properties of the animator.                                             *)
(***************************************************************************)
Scheduled(r) == InSeq(rafQueue, r) \/ InSeq(frameQueue, r)

\* a run that can still change the symbol of its graphic: a frame callback of it
\* is pending and it was not cancelled
CanMutate(r) ==
  /\ Scheduled(r)
  /\ IF runs[r].type = "spring" THEN runs[r].springAnimating ELSE ~runs[r].abort

\* the run of the latest call of start made from outside the class, 0 if none
LatestStart(rs) ==
  LET S == { r \in DOMAIN rs : rs[r].origin = r }
  IN IF S = {} THEN 0 ELSE CHOOSE r \in S : \A q \in S : q <= r

\* the step makes no public call: it is a frame callback or a continuation
FrameStep == last' = NoCall /\ frameQueue # <<>>

\* the size a scale target stands for
TargetSize(original, scale) == (original.size * scale) \div Unit

\* C1: after resetSymbol, and until start is called again, the symbol is the
\* original symbol captured at construction and isAnimating is false.
C1_ResetRestoresExactly ==
  \A a \in DOMAIN anims :
    anims[a].lastCall = "resetSymbol" =>
      /\ symbol[anims[a].graphic] = anims[a].originalSymbol
      /\ ~anims[a].isAnimating

\* C2: once start(B) has superseded run A, the onFinish of A is not called, a
\* tick of A does not change the symbol and does not cancel B, and B ends on
\* its own target.
C2_LastStartWins ==
  [][\A r \in DOMAIN runs :
       LET B == LatestStart(runs)
           an == anims[runs[r].anim]
       IN /\ (runs[r].origin # B /\ runs[B].anim = runs[r].anim /\ FrameStep) =>
               /\ runs'[r].onFinishCalls = runs[r].onFinishCalls
               /\ Head(frameQueue) = r =>
                    /\ symbol'[an.graphic] = symbol[an.graphic]
                    /\ runs'[B].abort = runs[B].abort
          /\ (r = B /\ ~runs[r].finished /\ runs'[r].finished) =>
               symbol'[an.graphic] =
                 onStep(Unit, symbol'[an.graphic], runs[r].props.to, an.originalSymbol,
                       localStorage)
    ]_vars

\* what stop() may change besides cancelling: nothing of the graphic
NoRunActive(a) ==
  \A r \in DOMAIN runs : runs[r].anim = a => ~Scheduled(r)

\* C3: after stop() isAnimating is false and stays false and no frame changes
\* the symbol, fires onFinish or requests another frame, until start is called
\* again; stop leaves the symbol alone and does nothing when no run is active.
C3_StopStaysStopped ==
  [][\A a \in DOMAIN anims :
       /\ anims'[a].lastCall = "stop" => ~anims'[a].isAnimating
       /\ (anims[a].lastCall = "stop" /\ FrameStep
             /\ runs[Head(frameQueue)].anim = a) =>
            /\ symbol'[anims[a].graphic] = symbol[anims[a].graphic]
            /\ \A r \in DOMAIN runs : runs'[r].onFinishCalls = runs[r].onFinishCalls
            /\ rafQueue' = rafQueue
       /\ (last'.op = "stop" /\ symbolAnimation[last'.graphic] = a) =>
            /\ symbol' = symbol
            /\ NoRunActive(a) =>
                 /\ runs' = runs /\ rafQueue' = rafQueue
                 /\ anims' = [anims EXCEPT ![a].lastCall = "stop"]
    ]_vars

\* C4: an animator has at most one run that can still change the symbol, and
\* its cancellation handle is the handle of that run.
C4_OneActiveRun ==
  \A a \in DOMAIN anims :
    \A r \in DOMAIN runs :
      (runs[r].anim = a /\ CanMutate(r)) => anims[a].abortCurrentAnimation = r

\* run r takes its finishing step: onFinish is fired in this step
Finishes(r) == r \in DOMAIN runs /\ ~runs[r].finished /\ runs'[r].finished

ScalesSimpleMarker(r) ==
  /\ runs[r].props.to.scale # Undef
  /\ anims[runs[r].anim].originalSymbol.type = "simple-marker"

C9_CallbacksOnce ==
  \A r \in DOMAIN runs :
    /\ runs[r].onStartCalls = 1
    /\ ~runs[r].onStartAfterUpdate
    /\ runs[r].onFinishCalls <= 1
    /\ (~Scheduled(r) /\ ~runs[r].abort) => runs[r].onFinishCalls = 1
    /\ runs[r].finished => (runs[r].onFinishCalls = 1 /\ ~Scheduled(r))

\* a spring run and an easing run have both ended uncancelled
C9_Witness ==
  \E r \in DOMAIN runs :
    /\ runs[r].finished /\ ~runs[r].abort /\ runs[r].updated
    /\ runs[r].onStartCalls = 1 /\ runs[r].onFinishCalls = 1
    /\ \E q \in DOMAIN runs : runs[q].abort /\ runs[q].onFinishCalls = 0

RotatesSimpleMarker(r) ==
  /\ runs[r].type = "spring"
  /\ runs[r].props.to.rotate # Undef
  /\ anims[runs[r].anim].originalSymbol.type = "simple-marker"

ObjectIdChoices ==
  { [g \in Graphics |-> IF g = "g1" THEN 7 ELSE n] : n \in {7, 9, Undef} }

AnimationIds == {"", "a"}

LinearConfig == [type |-> "easing", duration |-> 2, easingFunction |-> "linear"]

\* the calls of makeAnimatableSymbol: graphic, easingConfig, isOverlay, animationId
MakeCalls ==
  { <<"g1", SpringConfig, FALSE, "">>, <<"g1", LinearConfig, TRUE, "a">>,
    <<"g2", LinearConfig, FALSE, "a">>, <<"g2", SpringConfig, FALSE, "">> }

MaxMgrRuns == 1      \* calls of start the caller makes on a manager's graphics

MgrProps == { Props(ToBoth, TRUE, FALSE, "none"), Props(ToRotate, FALSE, TRUE, "none") }

\* new SymbolAnimationManager({ layerView, mapView }): on a graphics layer the
\* overlay is the layer itself, which holds g1; otherwise it is a new, empty
\* graphics layer and the parent gets the feature effect
MgrInit ==
  \E glv \in BOOLEAN, oids \in ObjectIdChoices :
    /\ isGraphicsLayerView = glv
    /\ InitFrom(setupAnimatedGraphicsLayer(
                  [EmptyHeap EXCEPT
                     !.symbol = [g \in Graphics |-> SimpleMarker(4, 30, 1, Unit)],
                     !.overlay = IF glv THEN {"g1"} ELSE {},
                     !.map = ParentMap]))
    /\ objectId = oids
    /\ layerOpacity = Unit
    /\ update = NoUpdate
    /\ last = NoCall

\* manager.makeAnimatableSymbol({ graphic, easingConfig, isOverlay, animationId, opacity })
MakeAnimatableSymbol(g, cfg, isOverlay, animationId, opacity) ==
  /\ Idle
  /\ LET h == makeAnimatableSymbol(Heap, g, cfg, isOverlay, animationId, opacity) IN
       /\ Len(h.anims) <= MaxAnims
       /\ Commit(h)
  /\ last' = [Call("makeAnimatableSymbol", g, getUniqueId(Heap, g, animationId),
                   makeAnimatableSymbolResult(Heap, g, animationId))
              EXCEPT !.opacity = opacity]
  /\ UNCHANGED <<isGraphicsLayerView, objectId, layerOpacity, localStorage, network, throttle, update>>

\* manager.removeAnimatedGraphic({ graphic, animationId })
RemoveAnimatedGraphic(g, animationId) ==
  /\ Idle
  /\ LET h == removeAnimatedGraphic(Heap, g, animationId) IN
       /\ Len(h.runs) <= MaxRuns
       /\ Len(h.deferred) <= MaxDeferred
       /\ Commit(h)
  /\ last' = Call("removeAnimatedGraphic",
                  getAnimatedGraphic(Heap, g, animationId),
                  getUniqueId(Heap, g, animationId),
                  getAnimatedGraphic(Heap, g, animationId))
  /\ UNCHANGED <<isGraphicsLayerView, objectId, layerOpacity, localStorage, network, throttle, update>>

\* manager.removeAllAnimatedGraphics()
RemoveAllAnimatedGraphics ==
  /\ Idle
  /\ LET h == removeAllAnimatedGraphics(Heap) IN
       /\ Len(h.runs) <= MaxRuns
       /\ Len(h.deferred) <= MaxDeferred
       /\ Commit(h)
  /\ last' = Call("removeAllAnimatedGraphics", NoGraphic, "", NoGraphic)
  /\ UNCHANGED <<isGraphicsLayerView, objectId, layerOpacity, localStorage, network, throttle, update>>

\* manager.hasAnimatedGraphic({ graphic, animationId })
HasAnimatedGraphic(g, animationId) ==
  /\ Idle
  /\ last' = Call("hasAnimatedGraphic", g, getUniqueId(Heap, g, animationId),
                  IF hasAnimatedGraphic(Heap, g, animationId) THEN "true" ELSE "false")
  /\ last' # last
  /\ Commit(Heap)
  /\ UNCHANGED <<isGraphicsLayerView, objectId, layerOpacity, localStorage, network, throttle, update>>

\* manager.getAnimatedGraphic({ graphic, animationId })
GetAnimatedGraphic(g, animationId) ==
  /\ Idle
  /\ last' = Call("getAnimatedGraphic", g, getUniqueId(Heap, g, animationId),
                  getAnimatedGraphic(Heap, g, animationId))
  /\ last' # last
  /\ Commit(Heap)
  /\ UNCHANGED <<isGraphicsLayerView, objectId, layerOpacity, localStorage, network, throttle, update>>

\* mapView.updating became false: the oldest whenOnce continuation runs
DeferredRemove ==
  /\ deferred # <<>>
  /\ Commit(deferredRemove([Heap EXCEPT !.deferred = Tail(@)], Head(deferred)))
  /\ last' = NoCall
  /\ UNCHANGED <<isGraphicsLayerView, objectId, layerOpacity, localStorage, network, throttle, update>>

\* animatedGraphic.symbolAnimation.start(props) by the caller of the manager
StartAnimation(g, props) ==
  /\ Len(runs) < MaxMgrRuns
  /\ Start(g, props)

MgrFrames ==
  \/ AnimationFrame(2)
  \/ EasingFrame(1)
  \/ \E atRest \in BOOLEAN : SpringFrame(1, atRest)

MgrNext ==
  \/ \E c \in MakeCalls : MakeAnimatableSymbol(c[1], c[2], c[3], c[4], Undef)
  \/ \E g \in Graphics \cup {NoGraphic}, id \in AnimationIds : RemoveAnimatedGraphic(g, id)
  \/ RemoveAllAnimatedGraphics
  \/ \E g \in Graphics, props \in MgrProps : StartAnimation(g, props)
  \/ DeferredRemove
  \/ MgrFrames

MgrSpec == MgrInit /\ [][MgrNext]_vars

\* The manager specification with the caller's lookups.
Lookups ==
  \/ \E g \in Graphics \cup {NoGraphic}, id \in AnimationIds : HasAnimatedGraphic(g, id)
  \/ \E g \in Graphics \cup {NoGraphic}, id \in AnimationIds : GetAnimatedGraphic(g, id)

\* the operations of MgrNext, the caller animating with removeOnComplete (the
\* animation that changes the registry), and the lookups
LookupNext ==
  \/ \E c \in MakeCalls : MakeAnimatableSymbol(c[1], c[2], c[3], c[4], Undef)
  \/ \E g \in Graphics \cup {NoGraphic}, id \in AnimationIds : RemoveAnimatedGraphic(g, id)
  \/ RemoveAllAnimatedGraphics
  \/ \E g \in Graphics : StartAnimation(g, Props(ToRotate, FALSE, TRUE, "none"))
  \/ DeferredRemove
  \/ MgrFrames
  \/ Lookups

LookupSpec == MgrInit /\ [][LookupNext]_vars

(***************************************************************************)
(* Properties of the manager.                                              *)
(***************************************************************************)
Registered(id) == \E i \in 1..Len(animatedGraphics) : animatedGraphics[i].id = id

EntriesOf(registry, id) == { i \in 1..Len(registry) : registry[i].id = id }

\* C5: makeAnimatableSymbol with arguments that resolve to a registered id (as
\* they do in the second of two calls) returns the registered graphic, the same
\* as the call before it, keeps one registry entry for the id, creates no
\* animator, captures no symbol and adds nothing to the overlay.
C5_IdempotentCreation ==
  [][last'.op = "makeAnimatableSymbol" =>
       /\ Cardinality(EntriesOf(animatedGraphics', last'.id)) = 1
       /\ \A i \in EntriesOf(animatedGraphics', last'.id) :
            animatedGraphics'[i].graphic = last'.ret
       /\ (last.op = "makeAnimatableSymbol" /\ last.id = last'.id) => last'.ret = last.ret
       /\ Registered(last'.id) =>
            /\ animatedGraphics' = animatedGraphics
            /\ anims' = anims
            /\ symbol' = symbol /\ symbolAnimation' = symbolAnimation
            /\ overlay' = overlay
            /\ graphicsObjectIdsToFilter' = graphicsObjectIdsToFilter /\ where' = where
    ]_vars

\* a second call for an id, made with another graphic, returned the graphic of
\* the first
C5_Witness ==
  /\ last.op = "makeAnimatableSymbol" /\ last.had
  /\ last.ret # last.graphic
  /\ last.ret \in overlay
  /\ Len(anims) = 1

\* C6: on a parent that is not a graphics layer, making a non-overlay graphic
\* with object id N animatable (nothing is excluded yet) makes the filter
\* predicate "IN (N)", and a make followed by the remove of the same graphic
\* restores the predicate (hence the excluded ids) found by the make.
C6_ExclusionRoundTrip ==
  [][~isGraphicsLayerView =>
       /\ (last'.op = "makeAnimatableSymbol" /\ ~last'.had
             /\ ~anims'[Len(anims')].isOverlay
             /\ objectId[last'.graphic] # Undef
             /\ graphicsObjectIdsToFilter = <<>>) =>
            where' = [kind |-> "IN", ids |-> <<objectId[last'.graphic]>>]
       /\ (last.op = "makeAnimatableSymbol" /\ ~last.had
             /\ last'.op = "removeAnimatedGraphic" /\ last'.id = last.id) =>
            where' = last.before
    ]_vars

C12_UnregisteredLookupsAreInert ==
  [][ ( /\ last'.op \in {"hasAnimatedGraphic", "getAnimatedGraphic", "removeAnimatedGraphic"}
        /\ ~last'.had )
      => /\ last'.ret = IF last'.op = "hasAnimatedGraphic" THEN "false" ELSE NoGraphic
         /\ animatedGraphics' = animatedGraphics
         /\ overlay' = overlay
         /\ graphicsObjectIdsToFilter' = graphicsObjectIdsToFilter
         /\ where' = where
         /\ deferred' = deferred
         /\ symbol' = symbol
         /\ anims' = anims
         /\ runs' = runs ]_vars

\* removeAnimatedGraphic was called with an animationId that is not registered
\* while there are registered graphics
C12_Witness ==
  /\ last.op = "removeAnimatedGraphic"
  /\ ~last.had
  /\ last.id = "a"
  /\ animatedGraphics # <<>>

\* the animator that the latest makeAnimatableSymbol call created
Created == anims[Len(anims)]

\* C13: a makeAnimatableSymbol call that registers a graphic puts the graphic
\* into the overlay exactly when the parent is not a graphics layer or isOverlay
\* is true; a non-overlay graphic on a graphics-layer parent is not added to the
\* layer (the layer's graphics stay as they were).
C13_OverlayInsertion ==
  [][ (last'.op = "makeAnimatableSymbol" /\ ~last'.had)
      => LET an == anims'[Len(anims')] IN
         /\ Len(anims') = Len(anims) + 1
         /\ an.graphic = last'.graphic
         /\ IF ~isGraphicsLayerView \/ an.isOverlay
            THEN overlay' = overlay \cup {last'.graphic}
            ELSE overlay' = overlay ]_vars

\* a non-overlay graphic was made animatable on a graphics-layer parent and is
\* not in the layer, and an overlay graphic was added to the layer
C13_Witness ==
  /\ isGraphicsLayerView
  /\ last.op = "makeAnimatableSymbol"
  /\ ~last.had
  /\ ~Created.isOverlay
  /\ Created.graphic = last.graphic
  /\ last.graphic \notin overlay

\* C14: a makeAnimatableSymbol call with isOverlay = true adds no object id to
\* the excluded set and leaves the parent's filter predicate as it was ('1<>1'
\* on a fresh manager of a feature layer); on a graphics-layer parent no step
\* excludes an object id or installs or changes a filter.
C14_OverlayLeavesFilterAlone ==
  [][ /\ ( /\ last'.op = "makeAnimatableSymbol"
           /\ ~last'.had
           /\ anims'[Len(anims')].isOverlay )
         => /\ graphicsObjectIdsToFilter' = graphicsObjectIdsToFilter
            /\ where' = where
      /\ isGraphicsLayerView
         => /\ graphicsObjectIdsToFilter' = <<>>
            /\ where' = NoFilter ]_vars

\* an overlay graphic was registered with a fresh manager of a feature layer:
\* it is in the overlay and the predicate is still '1<>1'
C14_Witness ==
  /\ ~isGraphicsLayerView
  /\ last.op = "makeAnimatableSymbol"
  /\ ~last.had
  /\ Len(anims) = 1
  /\ Created.isOverlay
  /\ last.graphic \in overlay
  /\ where = NeverTrue
  /\ animatedGraphics = <<[id |-> last.id, graphic |-> last.graphic]>>

(***************************************************************************)
(* The life-cycle specification: a map with the parent layer, the manager  *)
(* constructed on it, used and destroyed, while the application changes    *)
(* the map's layers and the overlay layer's graphics.                      *)
(***************************************************************************)
\* the map's layers (bottom first) and the layer views that exist when the
\* manager is constructed
MapChoices ==
  { [NoMap EXCEPT !.layers = <<"parent">>, !.layerViews = <<"parent">>],
    [NoMap EXCEPT !.layers = <<"parent", "top">>, !.layerViews = <<"parent", "top">>],
    [NoMap EXCEPT !.layers = <<"base", "parent">>, !.layerViews = <<"base", "parent">>],
    [NoMap EXCEPT !.layers = <<"base", "parent", "top">>, !.layerViews = <<"parent", "top">>] }

LifeMakeCalls ==
  { <<"g1", LinearConfig, FALSE, "">>, <<"g1", LinearConfig, TRUE, "a">>,
    <<"g2", LinearConfig, FALSE, "">> }

LifeInit ==
  \E glv \in BOOLEAN, m \in MapChoices :
    /\ isGraphicsLayerView = glv
    /\ InitFrom([EmptyHeap EXCEPT
                   !.symbol = [g \in Graphics |-> SimpleMarker(4, 30, 1, Unit)],
                   !.overlay = IF glv THEN {"g1"} ELSE {},
                   !.map = m])
    /\ objectId = [g \in Graphics |-> IF g = "g1" THEN 7 ELSE 9]
    /\ layerOpacity = Unit
    /\ update = NoUpdate
    /\ last = NoCall

Constructed == map.overlayLayer # ""

\* new SymbolAnimationManager({ layerView, mapView })
Construct ==
  /\ ~Constructed
  /\ Commit(setupAnimatedGraphicsLayer(Heap))
  /\ last' = Call("constructor", NoGraphic, "", NoGraphic)
  /\ UNCHANGED <<isGraphicsLayerView, objectId, layerOpacity, localStorage, network, throttle, update>>

\* manager.destroy()
Destroy ==
  /\ Constructed
  /\ ~map.destroyCalled
  /\ Idle
  /\ LET h == destroy(Heap) IN
       /\ Len(h.deferred) <= MaxDeferred
       /\ Commit(h)
  /\ last' = Call("destroy", NoGraphic, "", NoGraphic)
  /\ UNCHANGED <<isGraphicsLayerView, objectId, layerOpacity, localStorage, network, throttle, update>>

\* the application adds a layer to the map: map.add(layer, index); the watch of
\* map.allLayers runs its callback
UserAddLayer(index) ==
  /\ Constructed
  /\ ~InSeq(map.layers, "new")
  /\ Commit(layerOrderChanged([Heap EXCEPT !.map.layers = InsertAt(@, "new", index)]))
  /\ last' = NoCall
  /\ UNCHANGED <<isGraphicsLayerView, objectId, layerOpacity, localStorage, network, throttle, update>>

\* the application moves the overlay layer: map.reorder(overlay, index)
UserReorderOverlay(index) ==
  /\ Constructed
  /\ InSeq(map.layers, "overlay")
  /\ Commit(layerOrderChanged(
              [Heap EXCEPT !.map.layers = InsertAt(SeqWithout(@, "overlay"), "overlay", index)]))
  /\ last' = NoCall
  /\ UNCHANGED <<isGraphicsLayerView, objectId, layerOpacity, localStorage, network, throttle, update>>

\* the application adds an animated graphic to the overlay layer itself:
\* manager.animationGraphicsOverlay.add(graphic)
UserOverlayAdd(g) ==
  /\ Constructed
  /\ symbolAnimation[g] # 0
  /\ g \notin overlay
  /\ Commit(overlayAdd(Heap, g))
  /\ last' = Call("overlay.add", g, "", NoGraphic)
  /\ UNCHANGED <<isGraphicsLayerView, objectId, layerOpacity, localStorage, network, throttle, update>>

\* manager.animationGraphicsOverlay.remove(graphic) by the application
UserOverlayRemove(g) ==
  /\ Constructed
  /\ symbolAnimation[g] # 0
  /\ g \in overlay
  /\ LET h == overlayRemove(Heap, g) IN
       /\ Len(h.deferred) <= MaxDeferred
       /\ Commit(h)
  /\ last' = Call("overlay.remove", g, "", NoGraphic)
  /\ UNCHANGED <<isGraphicsLayerView, objectId, layerOpacity, localStorage, network, throttle, update>>

\* the manager's methods are called before destroy()
LifeMake(g, cfg, isOverlay, animationId) ==
  /\ Constructed
  /\ ~map.destroyCalled
  /\ MakeAnimatableSymbol(g, cfg, isOverlay, animationId, Undef)

LifeRemove(g, animationId) ==
  /\ Constructed
  /\ ~map.destroyCalled
  /\ RemoveAnimatedGraphic(g, animationId)

LifeNext ==
  \/ Construct
  \/ Destroy
  \/ \E c \in LifeMakeCalls : LifeMake(c[1], c[2], c[3], c[4])
  \/ \E g \in Graphics : LifeRemove(g, "")
  \/ \E index \in 0..2 : UserAddLayer(index)
  \/ \E index \in 0..2 : UserReorderOverlay(index)
  \/ \E g \in Graphics : UserOverlayAdd(g)
  \/ \E g \in Graphics : UserOverlayRemove(g)
  \/ DeferredRemove

LifeSpec == LifeInit /\ [][LifeNext]_vars

C16_DestroyDetaches ==
  [][ /\ last'.op = "destroy"
         => /\ animatedGraphics' = <<>>
            /\ ~isGraphicsLayerView => where' = NeverTrue
            /\ ~map'.layerOrderListener
            /\ ~InSeq(map'.layers, map.overlayLayer)
      /\ (map.destroyCalled /\ last'.op \in {"overlay.add", "overlay.remove"})
         => /\ animatedGraphics' = animatedGraphics
            /\ graphicsObjectIdsToFilter' = graphicsObjectIdsToFilter
            /\ where' = where ]_vars

(***************************************************************************)
(* The update-function specification: the three default update functions   *)
(* called directly, on a symbol and on the symbol a call returned.         *)
(***************************************************************************)
MaxUpdates == 2      \* calls of an update function in one behaviour

UpdateFunctions ==
  {"updateSimpleMarker", "updatePictureMarker", "updateCIMSymbolPointMarker"}

\* the symbols of the kind an update function takes; the base opacity is
\* recorded on the symbol or not
SymbolsOf(fn) ==
  CASE fn = "updateSimpleMarker" ->
         { SimpleMarker(4, 30, 1, Unit), SimpleMarker(6, 0, Unit, Undef),
           [SimpleMarker(4, 30, 1, 1) EXCEPT !.opacity = 1] }
    [] fn = "updatePictureMarker" ->
         { PictureMarker(4, 6, 30, PlainUrl), PictureMarker(6, 4, 0, QueryUrl),
           [PictureMarker(4, 6, 30, PlainUrl) EXCEPT !.opacity = 1] }
    [] fn = "updateCIMSymbolPointMarker" ->
         { CIMSymbol(4, 30), CIMSymbol(6, 400), CIMSymbol(4, 350) }

\* targets: every field absent, NaN or a number
Targets ==
  [scale : {Undef, NaN, Unit + 1}, rotate : {Undef, NaN, 90}, opacity : {Undef, NaN, 1}]

NextTargets ==
  { [scale |-> Undef, rotate |-> Undef, opacity |-> Unit],
    [scale |-> Undef, rotate |-> NaN, opacity |-> Undef],
    [scale |-> Unit, rotate |-> 0, opacity |-> 0] }

UpdateProgress == {0, 1, Unit}

\* the cached images
CacheChoices == { {}, {PlainUrl.image, QueryUrl.image} }

Apply(fn, progress, fromSymbol, to, originalSymbol) ==
  CASE fn = "updateSimpleMarker" ->
         updateSimpleMarker(progress, fromSymbol, to, originalSymbol)
    [] fn = "updatePictureMarker" ->
         updatePictureMarker(progress, fromSymbol, to, originalSymbol, localStorage)
    [] fn = "updateCIMSymbolPointMarker" ->
         updateCIMSymbolPointMarker(progress, fromSymbol, to, originalSymbol)

UpdateInit ==
  \E cache \in CacheChoices :
    /\ InitFrom([EmptyHeap EXCEPT !.localStorage = cache])
    /\ isGraphicsLayerView = TRUE
    /\ objectId = [g \in Graphics |-> Undef]
    /\ layerOpacity = Unit
    /\ update = [NoUpdate EXCEPT !.progress = 0] @@ [n |-> 0]
    /\ last = NoCall

\* fn(progress, fromSymbol, to, originalSymbol)
UpdateCall(fn, progress, fromSymbol, to, originalSymbol) ==
  /\ update.n < MaxUpdates
  /\ update' = [fn |-> fn, progress |-> progress, to |-> to, fromSymbol |-> fromSymbol,
                originalSymbol |-> originalSymbol,
                result |-> Apply(fn, progress, fromSymbol, to, originalSymbol),
                n |-> update.n + 1]
  /\ Commit(Heap)
  /\ UNCHANGED <<isGraphicsLayerView, objectId, layerOpacity, localStorage, network, throttle, last>>

\* the first call, on any two symbols of the function's kind
UpdateFirst(fn, progress, fromSymbol, to, originalSymbol) ==
  /\ update.fn = "none"
  /\ UpdateCall(fn, progress, fromSymbol, to, originalSymbol)

\* a further call of the same function on the symbol the previous call returned
UpdateAgain(progress, to) ==
  /\ update.fn # "none"
  /\ UpdateCall(update.fn, progress, update.result, to, update.originalSymbol)

UpdateNext ==
  \/ \E fn \in UpdateFunctions, progress \in UpdateProgress, to \in Targets :
       \E fromSymbol \in SymbolsOf(fn), originalSymbol \in SymbolsOf(fn) :
         UpdateFirst(fn, progress, fromSymbol, to, originalSymbol)
  \/ \E progress \in UpdateProgress \ {0}, to \in NextTargets : UpdateAgain(progress, to)

UpdateSpec == UpdateInit /\ [][UpdateNext]_vars

Absent(v) == v = Undef \/ v = NaN

\* C17: an update function called with a target whose scale, rotate and opacity
\* are all absent (undefined or NaN) returns a symbol equal to the current
\* symbol in size, width, height, angle, fill and outline alpha and image url,
\* for any progress and any current and original symbol.
C17_EmptyTargetChangesNothing ==
  ( /\ update.fn # "none"
    /\ Absent(update.to.scale)
    /\ Absent(update.to.rotate)
    /\ Absent(update.to.opacity) )
  => /\ update.result.size = update.fromSymbol.size
     /\ update.result.width = update.fromSymbol.width
     /\ update.result.height = update.fromSymbol.height
     /\ update.result.angle = update.fromSymbol.angle
     /\ update.result.a = update.fromSymbol.a
     /\ update.result.oa = update.fromSymbol.oa
     /\ update.result.url = update.fromSymbol.url

\* the vector-composite function was called at progress 1 with a target whose
\* fields are NaN or missing on a symbol whose rotation is beyond 360
C17_Witness ==
  /\ update.fn = "updateCIMSymbolPointMarker"
  /\ update.progress = Unit
  /\ update.to = [scale |-> NaN, rotate |-> Undef, opacity |-> NaN]
  /\ update.fromSymbol.angle = 400
  /\ update.originalSymbol # update.fromSymbol
  /\ update.result = update.fromSymbol

\* C18: an opacity step of a picture marker writes
\* from + (target.opacity - from) * progress, where from is the opacity a
\* previous step wrote into the current symbol's encoded image, or the recorded
\* base opacity (1 when none is recorded) when no step wrote one.
C18_PictureOpacityStep ==
  ( /\ update.fn = "updatePictureMarker"
    /\ ~Absent(update.to.opacity)
    /\ update.originalSymbol.url.image \in localStorage )
  => LET base == IF update.originalSymbol.opacity # Undef
                 THEN update.originalSymbol.opacity ELSE Unit
         from == IF update.fromSymbol.url.svg THEN update.fromSymbol.url.opacity ELSE base
     IN /\ update.result.url.svg
        /\ update.result.url.opacity =
             from + ((update.to.opacity - from) * update.progress) \div Unit

(***************************************************************************)
(* The opacity specification: a manager whose caller passes an opacity to  *)
(* makeAnimatableSymbol, on a simple marker, a picture marker or a symbol  *)
(* of another kind, and animates and resets the graphics; the parent       *)
(* layer's opacity is 1/Unit.                                              *)
(***************************************************************************)
\* the opacity argument: absent, 0, 1/2, 1, above 1 and below 0
OpacityArgs == {Undef, 0, 1, Unit, Unit + 1, -1}

ToOpaque == [scale |-> Undef, rotate |-> Undef, opacity |-> Unit]

OpacityInit ==
  \E glv \in BOOLEAN, s \in InitialSymbols, cache \in CacheChoices :
    /\ isGraphicsLayerView = glv
    /\ InitFrom(setupAnimatedGraphicsLayer(
                  [EmptyHeap EXCEPT
                     !.symbol = [g \in Graphics |->
                                   IF g = "g1" THEN s ELSE PictureMarker(4, 6, 30, PlainUrl)],
                     !.overlay = IF glv THEN Graphics ELSE {},
                     !.map = ParentMap,
                     !.localStorage = cache]))
    /\ objectId = [g \in Graphics |-> IF g = "g1" THEN 7 ELSE 9]
    /\ layerOpacity = 1
    /\ update = NoUpdate
    /\ last = NoCall

OpacityNext ==
  \/ \E g \in Graphics, opacity \in OpacityArgs :
       MakeAnimatableSymbol(g, LinearConfig, FALSE, "", opacity)
  \/ \E g \in Graphics : ResetSymbol(g)
  \/ \E g \in Graphics : StartAnimation(g, Props(ToOpaque, FALSE, FALSE, "none"))
  \/ AnimationFrame(1)
  \/ EasingFrame(1)

OpacitySpec == OpacityInit /\ [][OpacityNext]_vars

\* the animated aspects a symbol shows
Shown(s) == [size |-> s.size, width |-> s.width, height |-> s.height, angle |-> s.angle,
             a |-> s.a, oa |-> s.oa, url |-> s.url]

\* C19: an animator constructed with opacity p # 1 on a simple or picture
\* marker records p on originalSymbol and applies the opacity step to
\* originalSymbol and to the graphic's symbol alike, so both show the same
\* translucency and resetSymbol shows it again; with p = 1 or another kind of
\* symbol the symbol is left as it was.
C19_ConstructionOpacity ==
  [][ (last'.op = "makeAnimatableSymbol" /\ ~last'.had)
      => LET an == anims'[Len(anims')]
             g == an.graphic
         IN IF an.opacity # Unit /\ symbol[g].type \in {"simple-marker", "picture-marker"}
            THEN /\ an.originalSymbol.opacity = an.opacity
                 /\ Shown(an.originalSymbol) = Shown(symbol'[g])
                 /\ Shown(resetSymbol(Heap', symbolAnimation'[g]).symbol[g]) = Shown(symbol'[g])
            ELSE Shown(symbol'[g]) = Shown(symbol[g]) ]_vars

\* C20: makeAnimatableSymbol gives the new animator the caller's opacity
\* clamped to [0, 1] whenever the caller passes one (0 and values out of range
\* included), and otherwise 1 on a graphics-layer parent and the parent
\* layer's opacity on any other parent.
C20_ResolvedOpacity ==
  (last.op = "makeAnimatableSymbol" /\ ~last.had)
  => Created.opacity =
       IF last.opacity # Undef THEN Min(Unit, Max(0, last.opacity))
       ELSE IF isGraphicsLayerView THEN Unit ELSE layerOpacity

\* C21: when an uncancelled run started with removeOnComplete finishes, on an
\* animator attached to a manager the graphic is no longer registered, is not
\* in the overlay and shows originalSymbol, for a spring and for a standard
\* easing alike; without a manager the graphic is destroyed.  Only animators
\* that are still the registered animator of their graphic are considered.
C21_RemoveOnComplete ==
  [][\A r \in DOMAIN runs :
       (/\ Finishes(r)
        /\ runs[r].props.removeOnComplete
        /\ anims[runs[r].anim].animationManager =>
              /\ Registered(anims[runs[r].anim].id)
              /\ symbolAnimation[anims[runs[r].anim].graphic] = runs[r].anim) =>
          LET an == anims[runs[r].anim]
              g == an.graphic
          IN IF an.animationManager
             THEN /\ ~\E i \in 1..Len(animatedGraphics') : animatedGraphics'[i].id = an.id
                  /\ (~isGraphicsLayerView \/ an.isOverlay) => g \notin overlay'
                  /\ symbol'[g] = an.originalSymbol
             ELSE g \in destroyed'
    ]_vars

\* C22: at every state of a manager with no removal continuation pending, every
\* id in the registry has exactly one entry, the graphic of the entry has an
\* attached animator, and the graphic is in the overlay whenever the parent is
\* not a graphics layer or the animator is flagged overlay.
C22_RegistryInvariant ==
  deferred = <<>> =>
    \A i \in 1..Len(animatedGraphics) :
      LET id == animatedGraphics[i].id
          g == animatedGraphics[i].graphic
      IN /\ Cardinality(EntriesOf(animatedGraphics, id)) = 1
         /\ symbolAnimation[g] # 0
         /\ (~isGraphicsLayerView \/ anims[symbolAnimation[g]].isOverlay) => g \in overlay

\* C23: no step of start, stop, resetSymbol or a frame changes the
\* originalSymbol of an animator, and no step changes the symbol a run that can
\* still mutate the graphic holds as its current symbol: the update functions
\* leave the symbols passed to them as they were.
C23_OriginalSymbolFrozen ==
  [][/\ \A a \in DOMAIN anims : anims'[a].originalSymbol = anims[a].originalSymbol
     /\ \A r \in DOMAIN runs :
          CanMutate(r)' => runs'[r].fromSymbol = runs[r].fromSymbol
    ]_vars

\* a run that is still live has moved the symbol of the graphic away from both
\* the original symbol and the symbol the run started from
C23_Witness ==
  \E r \in DOMAIN runs :
    /\ CanMutate(r)
    /\ runs[r].updated
    /\ symbol[anims[runs[r].anim].graphic] # anims[runs[r].anim].originalSymbol
    /\ symbol[anims[runs[r].anim].graphic] # runs[r].fromSymbol

\* the run a restart follows: the latest earlier run of the same public start
Predecessor(rs, r) ==
  CHOOSE p \in 1..(r - 1) :
    /\ rs[p].origin = rs[r].origin
    /\ \A q \in 1..(r - 1) : rs[q].origin = rs[r].origin => q <= p

\* C24: over successive cancellations of a yoyo run, the target of the
\* restarted run alternates: after a run towards the target the caller asked
\* for it is the neutral state, after a run towards the neutral state it is the
\* caller's target again.
C24_YoyoAlternates ==
  [][\A r \in DOMAIN runs' \ DOMAIN runs :
       LET o == runs'[r].origin IN
       (o # r /\ runs'[o].props.to # NeutralTarget) =>
          runs'[r].props.to =
            IF runs'[Predecessor(runs', r)].props.to = runs'[o].props.to
            THEN NeutralTarget
            ELSE runs'[o].props.to
    ]_vars

\* C25: when a standard-easing run terminates without having been cancelled,
\* the update at progress 1 has been applied by the time onFinish is called.
C25_FinalUpdateBeforeFinish ==
  [][\A r \in DOMAIN runs :
       (runs[r].type = "easing" /\ Finishes(r)) => runs'[r].finishedAt = Unit
    ]_vars

\* the object ids of the non-overlay animated graphics in the overlay
OverlayObjectIds ==
  { objectId[g] : g \in { x \in overlay : /\ symbolAnimation[x] # 0
                                         /\ ~anims[symbolAnimation[x]].isOverlay
                                         /\ objectId[x] # Undef } }

\* no graphic was ever given a second animator
OneAnimatorEach ==
  \A a1, a2 \in DOMAIN anims : anims[a1].graphic = anims[a2].graphic => a1 = a2

\* C26: on a parent that is not a graphics layer, with no removal continuation
\* pending and no graphic made animatable twice, the excluded ids are exactly
\* the object ids of the non-overlay graphics in the overlay.
C26_ExcludedIdsMatchOverlay ==
  (~isGraphicsLayerView /\ deferred = <<>> /\ OneAnimatorEach) =>
    { graphicsObjectIdsToFilter[i] : i \in 1..Len(graphicsObjectIdsToFilter) }
      = OverlayObjectIds

\* C27: on a parent that is not a graphics layer, at every state the filter of
\* the parent lists exactly the excluded ids when there are some and is the
\* predicate that is never true when there are none.
C27_FilterFollowsExcludedIds ==
  ~isGraphicsLayerView =>
    where = IF graphicsObjectIdsToFilter # <<>>
            THEN [kind |-> "IN", ids |-> graphicsObjectIdsToFilter]
            ELSE NeverTrue

\* the filter lists the one excluded id 9 while a non-overlay animator exists
\* for a graphic with object id 7, which is not excluded
C27_Witness ==
  /\ ~isGraphicsLayerView
  /\ graphicsObjectIdsToFilter = <<9>>
  /\ where.kind = "IN"
  /\ \E a \in DOMAIN anims : objectId[anims[a].graphic] = 7 /\ ~anims[a].isOverlay

(***************************************************************************)
(* The manager with an application that removes graphics from the overlay  *)
(* collection itself while animations run.                                 *)
(***************************************************************************)
\* animationGraphicsOverlay.remove(graphic) between two frames
OverlayRemove(g) ==
  /\ Idle
  /\ UserOverlayRemove(g)

VetoNext ==
  \/ MgrNext
  \/ \E g \in Graphics : OverlayRemove(g)

VetoSpec == MgrInit /\ [][VetoNext]_vars

\* the step is an attempt to remove graphic g, the registered non-overlay
\* graphic of a manager on a parent that is not a graphics layer, from the
\* overlay, and the animator of g is animating when the attempt starts and
\* when it has ended
RemovalWhileAnimating(g) ==
  LET a == symbolAnimation[g] IN
  /\ ~isGraphicsLayerView
  /\ a # 0
  /\ g \in overlay
  /\ ~anims[a].isOverlay
  /\ \E i \in 1..Len(animatedGraphics) :
       animatedGraphics[i] = [id |-> anims[a].id, graphic |-> g]
  /\ anims[a].isAnimating
  /\ anims'[a].isAnimating
  /\ last'.graphic = g
  /\ \/ last'.op = "overlay.remove"
     \/ last'.op = "removeAnimatedGraphic" /\ last'.id = anims[a].id

\* C28: an attempt to remove a registered non-overlay graphic from the overlay
\* while it is animating leaves the graphic in the overlay, its registry entry
\* in place and its object id, if it was excluded, excluded.
C28_AnimatingRemovalVetoed ==
  [][\A g \in Graphics :
       RemovalWhileAnimating(g) =>
          /\ g \in overlay'
          /\ \E i \in 1..Len(animatedGraphics') :
               animatedGraphics'[i] = [id |-> anims[symbolAnimation[g]].id, graphic |-> g]
          /\ InSeq(graphicsObjectIdsToFilter, objectId[g])
               => InSeq(graphicsObjectIdsToFilter', objectId[g])
    ]_vars

\* nothing is left to run: no frame callback and no removal continuation
Quiescent == rafQueue = <<>> /\ frameQueue = <<>> /\ deferred = <<>>

\* C29: once a removal of an animating, registered non-overlay graphic was vetoed, the
\* animation has run to completion and nothing is left to run, the graphic is
\* out of the overlay and its object id is not excluded.
C29_VetoedRemovalHappens ==
  \A g \in Graphics :
    LET a == symbolAnimation[g] IN
    (/\ ~isGraphicsLayerView
     /\ a # 0
     /\ anims[a].vetoed
     /\ ~anims[a].isOverlay
     /\ \E i \in 1..Len(animatedGraphics) :
          animatedGraphics[i] = [id |-> anims[a].id, graphic |-> g]
     /\ ~anims[a].isAnimating
     /\ \E r \in DOMAIN runs : runs[r].anim = a /\ runs[r].finished
     /\ Quiescent)
      => /\ g \notin overlay
         /\ ~InSeq(graphicsObjectIdsToFilter, objectId[g])

\* C30: no two entries of the registry refer to the same graphic.
C30_OneEntryPerGraphic ==
  \A i, j \in 1..Len(animatedGraphics) :
    animatedGraphics[i].graphic = animatedGraphics[j].graphic => i = j

\* C31: the run a call of start creates holds the symbol the graphic showed when
\* start was called, and every tick of a run that goes on sets the symbol to the
\* update function's result for that held symbol, the run's target and the
\* animator's originalSymbol.
C31_RunBlendsFromItsOrigin ==
  [][/\ \A r \in DOMAIN runs' \ DOMAIN runs :
          (last'.op = "start" /\ runs'[r].origin = r) =>
             runs'[r].fromSymbol = symbol[anims[runs'[r].anim].graphic]
     /\ (FrameStep /\ InSeq(rafQueue', Head(frameQueue))) =>
          LET r == Head(frameQueue)
              an == anims[runs[r].anim]
          IN symbol'[an.graphic] =
               onStep(runs'[r].progress, runs[r].fromSymbol, runs[r].props.to,
                      an.originalSymbol, localStorage)
    ]_vars

\* a run that was started while the symbol was part-way through an earlier run
\* has moved the symbol on from where it found it
C31_Witness ==
  \E r \in DOMAIN runs :
    /\ r > 1
    /\ runs[r].origin = r
    /\ CanMutate(r)
    /\ runs[r].updated
    /\ runs[r].fromSymbol # anims[runs[r].anim].originalSymbol
    /\ symbol[anims[runs[r].anim].graphic] # runs[r].fromSymbol

\* the time a run has been going at its next tick: 0 at the first tick
ElapsedAtTick(r) == IF runs[r].elapsed = Undef THEN 0 ELSE runs[r].elapsed

\* C32: every frame moves the elapsed time of a started easing run that is short
\* of its duration forward, and the tick of an uncancelled easing run whose
\* elapsed time has reached the duration is its last: afterwards no frame of the
\* run is scheduled, onFinish has been called and isAnimating is false.
C32_EasingRunTerminates ==
  [][/\ \A r \in DOMAIN runs :
          (/\ runs[r].type = "easing"
           /\ runs[r].elapsed # Undef
           /\ runs[r].elapsed < anims[runs[r].anim].easingConfig.duration
           /\ frameQueue = <<>> /\ frameQueue' # <<>>) =>
             runs'[r].elapsed > runs[r].elapsed
     /\ (/\ FrameStep
         /\ runs[Head(frameQueue)].type = "easing"
         /\ ~runs[Head(frameQueue)].abort
         /\ ElapsedAtTick(Head(frameQueue))
              >= anims[runs[Head(frameQueue)].anim].easingConfig.duration) =>
          LET r == Head(frameQueue) IN
          /\ ~InSeq(rafQueue', r) /\ ~InSeq(frameQueue', r)
          /\ runs'[r].onFinishCalls = 1
          /\ ~anims'[runs[r].anim].isAnimating
    ]_vars

\* an easing run that was never cancelled has ended
C32_Witness ==
  \E r \in DOMAIN runs :
    /\ runs[r].type = "easing"
    /\ ~runs[r].abort
    /\ runs[r].finished
    /\ ~Scheduled(r)
    /\ ~anims[runs[r].anim].isAnimating

\* v lies between x and y
Between(v, x, y) == (x <= v /\ v <= y) \/ (y <= v /\ v <= x)

\* where a call at the given progress puts a value that goes from from to target
Reaches(result, from, target, progress) ==
  /\ progress = 0 => result = from
  /\ progress = Unit => result = target
  /\ Between(result, from, target)

C34_OutlineFollowsFill ==
  ( /\ update.fn = "updateSimpleMarker"
    /\ isDefined(update.to.opacity)
    /\ isDefined(update.originalSymbol.oa)
    /\ update.originalSymbol.a = update.originalSymbol.oa
    /\ update.fromSymbol.a = update.fromSymbol.oa )
  => update.result.a = update.result.oa

\* the angle a call of the vector-composite function turns the layer through
Sweep(u) ==
  LET d == u.result.angle - JsRem(u.fromSymbol.angle, 360)
  IN IF d >= 0 THEN d ELSE -d

\* C35: a call of the vector-composite function with a rotate target and a
\* progress from 0 to 1 turns the layer through at most 180 degrees, and at
\* progress 1 leaves it at target.rotate.
C35_ShorterAngularPath ==
  ( /\ update.fn = "updateCIMSymbolPointMarker"
    /\ isDefined(update.to.rotate)
    /\ update.progress \in 0..Unit )
  => /\ Sweep(update) <= 180
     /\ update.progress = Unit => update.result.angle = update.to.rotate

(***************************************************************************)
(* The picture-marker update function with the image cache: its calls      *)
(* start fetches, which fail or succeed at any later time.                 *)
(***************************************************************************)
MaxFetchCalls == 3   \* calls of updatePictureMarker in one behaviour

\* the symbol a later call works on, and the targets of the later calls
FetchTargets ==
  { [scale |-> Unit + 1, rotate |-> 90, opacity |-> 1],
    [scale |-> Undef, rotate |-> Undef, opacity |-> Unit],
    [scale |-> Unit, rotate |-> 0, opacity |-> Undef] }

FetchInit ==
  \E cache \in CacheChoices :
    /\ InitFrom([EmptyHeap EXCEPT !.localStorage = cache])
    /\ isGraphicsLayerView = TRUE
    /\ objectId = [g \in Graphics |-> Undef]
    /\ layerOpacity = Unit
    /\ update = [NoUpdate EXCEPT !.progress = 0] @@ [n |-> 0]
    /\ last = NoCall

\* updatePictureMarker(progress, fromSymbol, to, originalSymbol) and the fetch
\* its getImageAsBase64 starts
FetchCall(progress, fromSymbol, to, originalSymbol) ==
  /\ update.n < MaxFetchCalls
  /\ update' = [fn |-> "updatePictureMarker", progress |-> progress, to |-> to,
                fromSymbol |-> fromSymbol, originalSymbol |-> originalSymbol,
                result |-> updatePictureMarker(progress, fromSymbol, to, originalSymbol,
                                               localStorage),
                n |-> update.n + 1]
  /\ network' = updatePictureMarkerFetches(network, to, originalSymbol, localStorage)
  /\ Commit(Heap)
  /\ UNCHANGED <<isGraphicsLayerView, objectId, layerOpacity, localStorage, throttle, last>>

FetchFirst(progress, fromSymbol, to, originalSymbol) ==
  /\ update.fn = "none"
  /\ FetchCall(progress, fromSymbol, to, originalSymbol)

\* a further call on the symbol the previous call returned
FetchAgain(progress, to) ==
  /\ update.fn # "none"
  /\ FetchCall(progress, update.result, to, update.originalSymbol)

\* fetch rejects, the response is not ok or the blob cannot be read: the catch
\* block logs the error
FetchFails(i) ==
  /\ i \in 1..Len(network.pending)
  /\ network' = [pending |-> SubSeq(network.pending, 1, i - 1)
                               \o SubSeq(network.pending, i + 1, Len(network.pending)),
                 errors |-> network.errors + 1]
  /\ Commit(Heap)
  /\ UNCHANGED <<isGraphicsLayerView, objectId, layerOpacity, localStorage, throttle, update, last>>

\* the image arrives: localStorage.setItem(cacheKey, base64)
FetchSucceeds(i) ==
  /\ i \in 1..Len(network.pending)
  /\ network' = [network EXCEPT !.pending =
                    SubSeq(@, 1, i - 1) \o SubSeq(@, i + 1, Len(@))]
  /\ localStorage' = localStorage \cup {network.pending[i]}
  /\ Commit(Heap)
  /\ UNCHANGED <<isGraphicsLayerView, objectId, layerOpacity, throttle, update, last>>

FetchNext ==
  \/ \E progress \in UpdateProgress, to \in FetchTargets :
       \E fromSymbol \in SymbolsOf("updatePictureMarker"),
          originalSymbol \in SymbolsOf("updatePictureMarker") :
         FetchFirst(progress, fromSymbol, to, originalSymbol)
  \/ \E progress \in UpdateProgress \ {0}, to \in FetchTargets : FetchAgain(progress, to)
  \/ \E i \in 1..MaxFetchCalls : FetchFails(i)
  \/ \E i \in 1..MaxFetchCalls : FetchSucceeds(i)

FetchSpec == FetchInit /\ [][FetchNext]_vars

\* the step is a call of updatePictureMarker with an opacity target
OpacityCall == update'.n = update.n + 1 /\ isDefined(update'.to.opacity)

\* C36: a picture-marker opacity step whose image is not cached returns the
\* current image url with scale and rotate applied and starts a fetch, also
\* when one is already in flight; a step whose image is cached returns the
\* re-encoded image and starts none; a fetch that fails logs one error and
\* leaves the cache as it was, and only a fetch that succeeds adds its image.
C36_CacheMissSkipsOpacity ==
  [][/\ (OpacityCall /\ ~getImageAsBase64(update'.originalSymbol.url, localStorage)) =>
          /\ update'.result.url = update'.fromSymbol.url
          /\ update'.result =
               updatePictureMarker(update'.progress, update'.fromSymbol,
                                   [update'.to EXCEPT !.opacity = Undef],
                                   update'.originalSymbol, localStorage)
          /\ network'.pending = Append(network.pending, update'.originalSymbol.url.image)
          /\ network'.errors = network.errors
          /\ localStorage' = localStorage
     /\ (OpacityCall /\ getImageAsBase64(update'.originalSymbol.url, localStorage)) =>
          /\ update'.result.url.svg
          /\ update'.result.url.image = update'.originalSymbol.url.image
          /\ network' = network
     /\ Len(network'.pending) < Len(network.pending) =>
          \/ network'.errors = network.errors + 1 /\ localStorage' = localStorage
          \/ /\ network'.errors = network.errors
             /\ \E i \in 1..Len(network.pending) :
                  localStorage' = localStorage \cup {network.pending[i]}
     /\ Len(network'.pending) >= Len(network.pending) => localStorage' = localStorage
    ]_vars

\* after a fetch failed, a later opacity step found the cache still empty,
\* kept the image url and started the fetch again
C36_Witness ==
  /\ network.errors >= 1
  /\ update.n >= 2
  /\ isDefined(update.to.opacity)
  /\ localStorage = {}
  /\ network.pending # <<>>
  /\ update.result.url = update.fromSymbol.url

(***************************************************************************)
(* throttleAsync: one wrapper, called at any time with any arguments.      *)
(***************************************************************************)
Wait == 2              \* the wait argument, in clock ticks
MaxThrottleCalls == 3  \* calls of the wrapper in one behaviour
MaxTime == 6           \* the clock stops here

ThrottleArgs == {"a", "b"}

\* promise = func(...args)
Invoke(t, args) ==
  [t EXCEPT !.invoked = Append(@, [at |-> t.now, args |-> args]),
            !.promise = Len(t.invoked) + 1]

\* the async function throttleAsync returns, called with args
throttled(t, args) ==
  LET t1 == [t EXCEPT !.lastArgs = args]
      t2 == IF t1.timerId = 0
            THEN [Invoke(t1, args) EXCEPT !.timerId = t1.now + Wait]
            ELSE t1
  IN [t2 EXCEPT !.returned = Append(@, [at |-> t2.now, promise |-> t2.promise])]

\* the timeout callback
execute(t) ==
  LET t1 == IF t.lastArgs # ""
            THEN [Invoke(t, t.lastArgs) EXCEPT !.lastArgs = ""]
            ELSE t
  IN [t1 EXCEPT !.timerId = 0]

ThrottleInit ==
  /\ InitFrom(EmptyHeap)
  /\ isGraphicsLayerView = TRUE
  /\ objectId = [g \in Graphics |-> Undef]
  /\ layerOpacity = Unit
  /\ update = NoUpdate
  /\ last = NoCall

ThrottleFrame ==
  /\ Commit(Heap)
  /\ UNCHANGED <<isGraphicsLayerView, objectId, layerOpacity, localStorage, network,
                 update, last>>

\* a call of the wrapper
ThrottledCall(args) ==
  /\ Len(throttle.returned) < MaxThrottleCalls
  /\ throttle' = throttled(throttle, args)
  /\ ThrottleFrame

\* the timeout is due (or overdue) and its callback runs
TimerFires ==
  /\ throttle.timerId # 0
  /\ throttle.now >= throttle.timerId
  /\ throttle' = execute(throttle)
  /\ ThrottleFrame

\* time passes; a timeout runs at most one tick late
ClockTick ==
  /\ throttle.now < MaxTime
  /\ throttle.timerId # 0 => throttle.now <= throttle.timerId
  /\ throttle' = [throttle EXCEPT !.now = @ + 1]
  /\ ThrottleFrame

ThrottleNext ==
  \/ \E args \in ThrottleArgs : ThrottledCall(args)
  \/ TimerFires
  \/ ClockTick

ThrottleSpec == ThrottleInit /\ [][ThrottleNext]_vars

\* C37: func is invoked at most once in any window of length wait; once the
\* timer of a single wrapper call has run, func has been invoked exactly once;
\* wrapper calls less than wait apart return the promise of one invocation.
C37_ThrottleOncePerWindow ==
  LET t == throttle IN
  /\ \A i, j \in 1..Len(t.invoked) :
       i < j => t.invoked[j].at - t.invoked[i].at >= Wait
  /\ (Len(t.returned) = 1 /\ t.timerId = 0) => Len(t.invoked) = 1
  /\ \A i, j \in 1..Len(t.returned) :
       (i < j /\ t.returned[j].at - t.returned[i].at < Wait
              /\ t.invoked[t.returned[i].promise].at + Wait > t.returned[j].at) =>
          t.returned[i].promise = t.returned[j].promise

\* C38: isAnimating is true exactly when the animator has a run that was
\* started and has neither finished nor been cancelled.
C38_IsAnimatingMeansLiveRun ==
  \A a \in DOMAIN anims :
    anims[a].isAnimating <=>
      \E r \in DOMAIN runs : runs[r].anim = a /\ ~runs[r].finished /\ CanMutate(r)

\* the registry holds graphic g under the id of its animator
RegisteredAs(registry, g, id) ==
  \E i \in 1..Len(registry) : registry[i].id = id /\ registry[i].graphic = g

\* C39: the continuation a before-remove handler scheduled for one removal
\* leaves a later registration alone: a graphic that is registered, when the
\* continuation runs, under the id the continuation resolves stays registered,
\* stays in the overlay and keeps its object id excluded.
C39_DeferredSparesLaterRegistration ==
  [][ ( /\ deferred # <<>>
        /\ last' = NoCall
        /\ rafQueue' = rafQueue
        /\ frameQueue' = frameQueue )
      => \A g \in Graphics :
           LET a == symbolAnimation[g]
               removed == symbolAnimation[Head(deferred)]
           IN ( /\ a # 0
                /\ anims[a].id = anims[removed].id
                /\ RegisteredAs(animatedGraphics, g, anims[a].id)
                /\ g \in overlay )
              => /\ RegisteredAs(animatedGraphics', g, anims[a].id)
                 /\ g \in overlay'
                 /\ InSeq(graphicsObjectIdsToFilter, objectId[g])
                      => InSeq(graphicsObjectIdsToFilter', objectId[g]) ]_vars

\* C40: destroy() removes from the map only a layer the manager created: on a
\* graphics layer view the caller's own layer, which the map held when
\* destroy() was called, is still in the map when destroy() has returned, and
\* every other layer of the map stays as well.
C40_DestroyKeepsCallersLayer ==
  [][ last'.op = "destroy" =>
        \A l \in {"base", "parent", "top"} :
          InSeq(map.layers, l) => InSeq(map'.layers, l) ]_vars
=============================================================================
